---- MODULE Spec2Model ----
\* A model of the epoch-indexed record algebra of the rinex crate
\* (rinex/src/lib.rs): merge, split, decimation and epoch-quality filters
\* acting on one Rinex value, with the merge-marker comment ledger.
EXTENDS Integers, Sequences, FiniteSets, TLC

VARIABLES rnx, last

vars == <<rnx, last>>

-----------------------------------------------------------------------------
\* Bounds of the model.

\* Sampling timestamps (and wall-clock readings) range over 0 .. MaxDate.
MaxDate == 1

\* Cap on the number of header comments, so that merges cannot grow the
\* header comment list without limit.
MaxComments == 1

\* Length of a calendar day in the model's time unit: "%Y%m%d" prints
\* t \div SecondsPerDay and "%H%M%S" prints t % SecondsPerDay.
SecondsPerDay == 2

\* Longest observable code, in characters ("C1C" has three).
MaxCodeLen == 3

\* Highest level of the signal strength scale carried by an observation.
MaxSsi == 2

\* Bits of precision of the floating point format
MantissaBits == 4

\* Longest version field enumerated, in characters ("3.04" has four).
MaxVersionLen == 4

-----------------------------------------------------------------------------
\* Data model.

Dates == 0 .. MaxDate

\* types::Type, as matched in lib.rs
EpochTypes == {"ObservationData", "NavigationData", "MeteoData", "IonosphereMaps"}

RinexTypes == EpochTypes \cup {"ClockData", "AntennaData"}

\* epoch::EpochFlag, reduced to what lib.rs reads of it: flag.is_ok()
EpochFlags == {"Ok", "PowerFailure"}

\* Payload attached to a key; opaque to the record algebra, which only
\* moves whole values around.  "a" marks data parsed into self, "b" data
\* brought by the other file of a merge.
Values == {"a", "b"}

\* epoch::Epoch { date, flag }
Epoch(d, f) == [date |-> d, flag |-> f]

\* Ordering of Epoch: total, by date alone (flag never takes part).
EpochLt(e1, e2) == e1.date < e2.date

EpochEq(e1, e2) == e1.date = e2.date

Entry(e, v) == [epoch |-> e, val |-> v]

\* A record is the in-order traversal of the BTreeMap: a sequence of
\* (key, value) entries.
IsSorted(rec) == \A i \in 1 .. Len(rec) - 1 : EpochLt(rec[i].epoch, rec[i + 1].epoch)

Range(s) == {s[i] : i \in 1 .. Len(s)}

DateSet(rec) == {rec[i].epoch.date : i \in 1 .. Len(rec)}

\* BTreeMap::get, keyed by the Ord of Epoch
Lookup(rec, d) == (CHOOSE i \in 1 .. Len(rec) : rec[i].epoch.date = d)

ValueAt(rec, d) == rec[Lookup(rec, d)].val

\* BTreeMap::insert: an equal key (by Ord) has its value replaced and the
\* stored key left as it is; a new key goes to its sorted position.
BTreeInsertUnsorted(rec, k, v) == Append(rec, Entry(k, v))

BTreeInsertKeepOld(rec, k, v) ==
    IF \E i \in 1 .. Len(rec) : EpochEq(rec[i].epoch, k)
    THEN rec
    ELSE LET n == Cardinality({i \in 1 .. Len(rec) : EpochLt(rec[i].epoch, k)})
         IN  SubSeq(rec, 1, n) \o <<Entry(k, v)>> \o SubSeq(rec, n + 1, Len(rec))

BTreeInsert(rec, k, v) ==
    IF \E i \in 1 .. Len(rec) : EpochEq(rec[i].epoch, k)
    THEN LET i == CHOOSE j \in 1 .. Len(rec) : EpochEq(rec[j].epoch, k)
         IN  [rec EXCEPT ![i].val = v]
    ELSE LET n == Cardinality({i \in 1 .. Len(rec) : EpochLt(rec[i].epoch, k)})
         IN  SubSeq(rec, 1, n) \o <<Entry(k, v)>> \o SubSeq(rec, n + 1, Len(rec))

\* for (k, v) in b_rec { a_rec.insert(*k, v.clone()) }, entries i .. Len(b_rec)
RECURSIVE InsertAll(_, _, _)
InsertAll(a_rec, b_rec, i) ==
    IF i > Len(b_rec) THEN a_rec
    ELSE InsertAll(BTreeInsert(a_rec, b_rec[i].epoch, b_rec[i].val), b_rec, i + 1)

\* Iterator::collect() into a BTreeMap
Collect(pairs) == InsertAll(<<>>, pairs, 1)

\* All sorted records over the dates d .. hi whose values come from vals
\* and whose flags come from flags.
RECURSIVE RecordsUpTo(_, _, _, _)
RecordsUpTo(d, hi, flags, vals) ==
    IF d > hi THEN {<<>>}
    ELSE LET rest == RecordsUpTo(d + 1, hi, flags, vals)
         IN  rest \cup {<<Entry(Epoch(d, f), v)>> \o r : f \in flags, v \in vals, r \in rest}

\* All sorted records over Dates whose values come from vals and whose
\* flags come from flags.
RECURSIVE RecordsFrom(_, _, _)
RecordsFrom(d, flags, vals) ==
    IF d > MaxDate THEN {<<>>}
    ELSE LET rest == RecordsFrom(d + 1, flags, vals)
         IN  rest \cup {<<Entry(Epoch(d, f), v)>> \o r : f \in flags, v \in vals, r \in rest}

-----------------------------------------------------------------------------
\* Comments.  A comment line is modelled by what lib.rs reads of it: whether
\* it contains "FILE MERGE", and the fields of its text past column 40
\* (trimmed), each field a run of digits or a month name followed by digits.

Field(cls, v) == [cls |-> cls, v |-> v]

\* now.format("%Y%m%d %H%M%S"): two digit fields
FormatStamp(now) ==
    <<Field("digits", now \div SecondsPerDay), Field("digits", now % SecondsPerDay)>>

\* format!("rustrnx-{:<20} FILE MERGE          {} UTC", version, stamp)
MergeMarker(now) == [merge |-> TRUE, tail |-> FormatStamp(now)]

ParseErr == [ok |-> FALSE, date |-> 0]

\* NaiveDateTime::parse_from_str(content, "%Y%m%d %h%m%s UTC"): after the
\* date digits, %h wants a month name, %m a month number and %s a UNIX
\* timestamp, which must agree with the date read by %Y%m%d.
ParseFromStr(tail) ==
    IF Len(tail) = 2 /\ tail[1].cls = "digits" /\ tail[2].cls = "month"
       /\ tail[2].v \div SecondsPerDay = tail[1].v
    THEN [ok |-> TRUE, date |-> tail[2].v]
    ELSE ParseErr

-----------------------------------------------------------------------------
\* Observable codes, as sequences of characters, and the macros that
\* classify them by their first letter.

\* str::starts_with
StartsWith(code, prefix) ==
    Len(code) >= Len(prefix) /\ SubSeq(code, 1, Len(prefix)) = prefix

\* is_pseudo_range_obs_code!
is_pseudo_range_obs_code(code) == StartsWith(code, <<"C">>) \/ StartsWith(code, <<"P">>)

is_phase_carrier_obs_code_or_range(code) ==
    StartsWith(code, <<"L">>) \/ StartsWith(code, <<"C">>)

\* is_phase_carrier_obs_code!
is_phase_carrier_obs_code(code) == StartsWith(code, <<"L">>)

\* is_doppler_obs_code!
is_doppler_obs_code(code) == StartsWith(code, <<"D">>)

\* is_sig_strength_obs_code!
is_sig_strength_obs_code(code) == StartsWith(code, <<"S">>)

-----------------------------------------------------------------------------
\* The Rinex value: header (rinex_type, comments), comments found in the
\* record section, and the record.

\* Option<T>
None == [some |-> FALSE]

Some(x) == [some |-> TRUE, v |-> x]

\* header::Header, reduced to the fields lib.rs reads
Header(t, hc) == [rinex_type |-> t, comments |-> hc, sampling_interval |-> None]

\* Rinex::new: the header and the record are stored as given.  record::Record
\* is an enum with a variant per RINEX type; variant names the one that holds
\* the entries of record.
new(header, variant, record) ==
    [header |-> header, comments |-> <<>>, record |-> record, variant |-> variant]

\* A parsed file of type t: the parser builds the variant of the type, and
\* collects the comments of the record section
Rinex(t, hc, rc, rec) == [new(Header(t, hc), t, rec) EXCEPT !.comments = rc]

\* Rinex::with_header
with_header(self, header) == [self EXCEPT !.header = header]

\* Rinex::epochs panics on records that are not indexed by epochs
EpochsPanics(self) == self.header.rinex_type \notin EpochTypes

epochs(self) == [i \in 1 .. Len(self.record) |-> self.record[i].epoch]

\* Rinex::is_merged scans self.comments, the comments of the record section
is_merged(self) ==
    \E i \in 1 .. Len(self.comments) :
        \E j \in 1 .. Len(self.comments[i].content) : self.comments[i].content[j].merge

\* Rinex::merge_boundaries scans self.header.comments
RECURSIVE BoundariesFrom(_, _)
BoundariesFrom(hc, i) ==
    IF i > Len(hc) THEN <<>>
    ELSE LET p == ParseFromStr(hc[i].tail)
         IN  (IF hc[i].merge /\ p.ok THEN <<p.date>> ELSE <<>>) \o BoundariesFrom(hc, i + 1)

merge_boundaries(self) == BoundariesFrom(self.header.comments, 1)

-----------------------------------------------------------------------------
\* Operations.  Each operator returns the outcome of one call:
\*   res  : "Ok", an error returned as a value, or "panic"
\*   self : the receiver after the call
\*   out  : the records the call returns (none for the in-place forms)

Outcome(res, self, out) == [res |-> res, self |-> self, out |-> out]

Panic(self) == Outcome("panic", self, <<>>)

\* Header::merge_mut: headers of different RINEX types cannot be merged
HeaderMergeFails(a, b) == a.rinex_type # b.rinex_type

\* The marker pushed by the merge of two non-empty records
PushMarker(hc, now) == Append(hc, MergeMarker(now))

\* One arm of the match in merge_mut: other's entries are inserted into
\* self's record, in other's key order
MergeRecords(a_rec, b_rec) == InsertAll(a_rec, b_rec, 1)

\* The self-is-empty arm of merge_mut
OverwriteKeepSelf(a_rec, b_rec) == a_rec

Overwrite(a_rec, b_rec) == b_rec

\* The last branch of merge_mut, both records non-empty: the marker is
\* pushed, then the match on rinex_type merges the records
MergeNonEmpty(self, other, now) ==
    LET marked == [self EXCEPT !.header.comments = PushMarker(self.header.comments, now)]
        t == self.header.rinex_type
    IN  CASE t = "NavigationData" ->
               Outcome("Ok", [marked EXCEPT !.record =
                                  MergeRecords(self.record, other.record)], <<>>)
          [] t = "ObservationData" ->
               Outcome("Ok", [marked EXCEPT !.record =
                                  MergeRecords(self.record, other.record)], <<>>)
          [] t = "MeteoData" ->
               Outcome("Ok", [marked EXCEPT !.record =
                                  MergeRecords(self.record, other.record)], <<>>)
          [] t = "IonosphereMaps" ->
               Outcome("Ok", [marked EXCEPT !.record =
                                  MergeRecords(self.record, other.record)], <<>>)
          [] OTHER -> Panic(marked)

merge_mut_unchecked_other(self, other, now) ==
    IF HeaderMergeFails(self.header, other.header)
    THEN Outcome("HeaderMismatch", self, <<>>)
    ELSE IF EpochsPanics(self) \/ EpochsPanics(other)
    THEN Panic(self)
    ELSE IF Len(epochs(self)) = 0
    THEN Outcome("Ok", [self EXCEPT !.record = Overwrite(self.record, other.record),
                                    !.variant = other.variant], <<>>)
    ELSE MergeNonEmpty(self, other, now)

\* merge_mut with the headers merged after the records
merge_mut_header_last(self, other, now) ==
    IF EpochsPanics(self) \/ EpochsPanics(other)
    THEN Panic(self)
    ELSE LET o == IF Len(epochs(self)) = 0
                  THEN Outcome("Ok", [self EXCEPT !.record = other.record], <<>>)
                  ELSE IF Len(epochs(other)) = 0
                  THEN Outcome("Ok", self, <<>>)
                  ELSE MergeNonEmpty(self, other, now)
         IN  IF HeaderMergeFails(self.header, other.header)
             THEN Outcome("HeaderMismatch", o.self, <<>>)
             ELSE o

\* Rinex::merge_mut
merge_mut(self, other, now) ==
    IF HeaderMergeFails(self.header, other.header)
    THEN Outcome("HeaderMismatch", self, <<>>)
    ELSE IF EpochsPanics(self) \/ EpochsPanics(other)
    THEN Panic(self)
    ELSE IF Len(epochs(self)) = 0
    THEN Outcome("Ok", [self EXCEPT !.record = Overwrite(self.record, other.record),
                                    !.variant = other.variant], <<>>)
    ELSE IF Len(epochs(other)) = 0
    THEN Outcome("Ok", self, <<>>)
    ELSE MergeNonEmpty(self, other, now)

\* record.retain(|e, _| e.date >= e0 && e.date < boundary), once per boundary
RECURSIVE SplitAtBoundaries(_, _, _, _)
SplitAtBoundaries(rec, boundaries, i, e0) ==
    IF i > Len(boundaries) THEN <<>>
    ELSE LET Keep(en) == en.epoch.date >= e0 /\ en.epoch.date < boundaries[i]
         IN  <<SelectSeq(rec, Keep)>> \o SplitAtBoundaries(rec, boundaries, i + 1, boundaries[i])

\* Rinex::split_merged_records
split_merged_records(self) ==
    IF EpochsPanics(self) \/ Len(epochs(self)) = 0
    THEN Panic(self)
    ELSE Outcome("Ok", self,
                 SplitAtBoundaries(self.record, merge_boundaries(self), 1, epochs(self)[1].date))

\* The two halves built by split_record_at_epoch
LeftHalfInclusive(rec, epoch) ==
    LET Keep(en) == en.epoch.date <= epoch.date IN Collect(SelectSeq(rec, Keep))

LeftHalf(rec, epoch) ==
    LET Keep(en) == en.epoch.date < epoch.date IN Collect(SelectSeq(rec, Keep))

RightHalf(rec, epoch) ==
    LET Keep(en) == en.epoch.date >= epoch.date IN Collect(SelectSeq(rec, Keep))

\* Rinex::split_record_at_epoch
split_record_at_epoch(self, epoch) ==
    IF EpochsPanics(self) \/ Len(epochs(self)) = 0
    THEN Panic(self)
    ELSE IF epoch.date < epochs(self)[1].date
    THEN Outcome("EpochTooEarly", self, <<>>)
    ELSE IF epoch.date > epochs(self)[Len(epochs(self))].date
    THEN Outcome("EpochTooLate", self, <<>>)
    ELSE IF self.header.rinex_type \in {"NavigationData", "ObservationData", "MeteoData"}
    THEN Outcome("Ok", self, <<LeftHalf(self.record, epoch), RightHalf(self.record, epoch)>>)
    ELSE Panic(self)

\* The closure passed to retain by decimate_by_interval(_mut), run over the
\* entries i .. Len(rec) with its captured last_preserved
RECURSIVE RetainIntervalFromPrevious(_, _, _, _)
RetainIntervalFromPrevious(rec, i, previous, min_requirement) ==
    IF i > Len(rec) THEN <<>>
    ELSE LET date == rec[i].epoch.date
             delta == date - previous
         IN  IF date # previous /\ delta < min_requirement
             THEN RetainIntervalFromPrevious(rec, i + 1, date, min_requirement)
             ELSE <<rec[i]>> \o RetainIntervalFromPrevious(rec, i + 1, date, min_requirement)

RECURSIVE RetainInterval(_, _, _, _)
RetainInterval(rec, i, last_preserved, min_requirement) ==
    IF i > Len(rec) THEN <<>>
    ELSE LET date == rec[i].epoch.date
             delta == date - last_preserved
         IN  IF date # last_preserved
             THEN IF delta >= min_requirement
                  THEN <<rec[i]>> \o RetainInterval(rec, i + 1, date, min_requirement)
                  ELSE RetainInterval(rec, i + 1, last_preserved, min_requirement)
             ELSE <<rec[i]>> \o RetainInterval(rec, i + 1, date, min_requirement)

\* Rinex::decimate_by_interval_mut
decimate_by_interval_mut(self, interval) ==
    IF EpochsPanics(self) \/ Len(epochs(self)) = 0
    THEN Panic(self)
    ELSE Outcome("Ok",
                 [self EXCEPT !.record =
                      RetainInterval(self.record, 1, epochs(self)[1].date, interval)],
                 <<>>)

\* Rinex::decimate_by_interval
decimate_by_interval(self, interval) ==
    IF EpochsPanics(self) \/ Len(epochs(self)) = 0
    THEN Panic(self)
    ELSE Outcome("Ok", self,
                 <<RetainInterval(self.record, 1, epochs(self)[1].date, interval)>>)

\* The closure passed to retain by decimate_by_ratio(_mut), run over the
\* entries i .. Len(rec) with its captured counter
RECURSIVE RetainRatio(_, _, _, _)
RetainRatio(rec, i, counter, ratio) ==
    IF i > Len(rec) THEN <<>>
    ELSE (IF counter % ratio = 0 THEN <<rec[i]>> ELSE <<>>)
         \o RetainRatio(rec, i + 1, counter + 1, ratio)

\* counter % ratio panics on a zero ratio, at the first entry visited
RatioPanics(self, ratio) == ratio = 0 /\ Len(self.record) > 0

\* Rinex::decimate_by_ratio_mut: an arm for each of the six record types
decimate_by_ratio_mut(self, ratio) ==
    IF RatioPanics(self, ratio)
    THEN Panic(self)
    ELSE Outcome("Ok", [self EXCEPT !.record = RetainRatio(self.record, 1, 0, ratio)], <<>>)

\* Rinex::decimate_by_ratio: no arm for ClockData, which falls to todo!()
decimate_by_ratio(self, ratio) ==
    IF self.header.rinex_type \notin
           {"NavigationData", "ObservationData", "MeteoData", "IonosphereMaps", "AntennaData"}
    THEN Panic(self)
    ELSE IF RatioPanics(self, ratio)
    THEN Panic(self)
    ELSE Outcome("Ok", self, <<RetainRatio(self.record, 1, 0, ratio)>>)

\* EpochFlag::is_ok
is_ok(flag) == flag = "Ok"

RetainOk(rec) == LET Keep(en) == is_ok(en.epoch.flag) IN SelectSeq(rec, Keep)

RetainNok(rec) == LET Keep(en) == ~is_ok(en.epoch.flag) IN SelectSeq(rec, Keep)

is_observation_rinex_any(self) == self.header.rinex_type \in RinexTypes

is_observation_rinex(self) == self.header.rinex_type = "ObservationData"

\* Rinex::epoch_ok_filter_mut
epoch_ok_filter_mut(self) ==
    IF ~is_observation_rinex(self) THEN Outcome("Ok", self, <<>>)
    ELSE Outcome("Ok", [self EXCEPT !.record = RetainOk(self.record)], <<>>)

\* Rinex::epoch_nok_filter_mut
epoch_nok_filter_mut(self) ==
    IF ~is_observation_rinex(self) THEN Outcome("Ok", self, <<>>)
    ELSE Outcome("Ok", [self EXCEPT !.record = RetainNok(self.record)], <<>>)

\* Rinex::epoch_ok_filter
epoch_ok_filter(self) ==
    IF ~is_observation_rinex(self) THEN Outcome("Ok", self, <<self.record>>)
    ELSE Outcome("Ok", self, <<RetainOk(self.record)>>)

\* Rinex::epoch_nok_filter
epoch_nok_filter(self) ==
    IF ~is_observation_rinex(self) THEN Outcome("Ok", self, <<self.record>>)
    ELSE Outcome("Ok", self, <<RetainNok(self.record)>>)

-----------------------------------------------------------------------------
\* Payloads of the records, as far as the filters read them.
\*   Observation : [clk, sv], sv a map Sv -> (code -> ObservationData)
\*   Navigation  : a map FrameClass -> sequence of frames (a Vec)
\*   Meteo       : a map code -> value
\*   Clock       : a map system -> (data type -> value)
\* Maps are functions; retain restricts their domain.

\* sv::Sv { constellation, prn }
Sv(c, n) == [constellation |-> c, prn |-> n]

\* observation::record::ObservationData, without the measurement itself
ObservationData(lli, ssi) == [lli |-> lli, ssi |-> ssi]

\* LliFlags::intersects, flags held as sets of bit names
Intersects(lli, mask) == lli \cap mask # {}

LOCK_LOSS == {"LOCK_LOSS"}

\* navigation frames: Frame::Eph(msg_type, sv, clk, ..) and Frame::Sto(message)
Eph(msg_type, sv, clk) == [msg_type |-> msg_type, sv |-> sv, clk |-> clk]

Sto(system) == [system |-> system]

\* to_string() of the enums the observable filter compares with its
\* strings: navigation MsgType, meteo Observable, clocks DataType
to_string(x) ==
    CASE x = "LNAV" -> <<"L", "N", "A", "V">>
      [] x = "CNAV" -> <<"C", "N", "A", "V">>
      [] x = "Pressure" -> <<"P", "R">>
      [] x = "Temperature" -> <<"T", "D">>
      [] x = "Ar" -> <<"A", "R">>
      [] x = "As" -> <<"A", "S">>

\* HashMap::retain and BTreeMap::retain
Retain(m, Keep(_, _)) == [k \in {x \in DOMAIN m : Keep(x, m[x])} |-> m[k]]

\* for (_e, value) in record.iter_mut() { .. }
ForEachEpoch(rec, Visit(_)) ==
    [i \in 1 .. Len(rec) |-> Entry(rec[i].epoch, Visit(rec[i].val))]

\* for (_k, value) in map.iter_mut() { .. }
ForEach(m, Visit(_)) == [k \in DOMAIN m |-> Visit(m[k])]

\* for (class, frames) in classes.iter_mut() { if *class == Ephemeris { frames.retain(..) } }
RetainEphemeris(classes, Keep(_)) ==
    [c \in DOMAIN classes |->
        IF c = "Ephemeris" THEN SelectSeq(classes[c], Keep) ELSE classes[c]]

is_navigation_rinex(self) == self.header.rinex_type = "NavigationData"

is_meteo_rinex(self) == self.header.rinex_type = "MeteoData"

is_clocks_rinex(self) == self.header.rinex_type = "ClockData"

\* The outcome of an in-place filter that leaves rec in self
Filtered(self, rec) == Outcome("Ok", [self EXCEPT !.record = rec], <<>>)

\* Rinex::constellation_filter_mut
constellation_filter_mut(self, filter) ==
    IF is_observation_rinex(self)
    THEN LET KeepSv(sv, obs) == sv.constellation \in filter
             Visit(v) == [v EXCEPT !.sv = Retain(v.sv, KeepSv)]
         IN  Filtered(self, ForEachEpoch(self.record, Visit))
    ELSE IF is_navigation_rinex(self)
    THEN LET KeepFrame(fr) == fr.sv.constellation \in filter
             Visit(classes) == RetainEphemeris(classes, KeepFrame)
         IN  Filtered(self, ForEachEpoch(self.record, Visit))
    ELSE Outcome("Ok", self, <<>>)

\* Rinex::space_vehicule_filter_mut
space_vehicule_filter_mut(self, filter) ==
    IF is_observation_rinex(self)
    THEN LET KeepSv(sv, obs) == sv \in filter
             Visit(v) == [v EXCEPT !.sv = Retain(v.sv, KeepSv)]
         IN  Filtered(self, ForEachEpoch(self.record, Visit))
    ELSE IF is_navigation_rinex(self)
    THEN LET KeepFrame(fr) == fr.sv \in filter
             Visit(classes) == RetainEphemeris(classes, KeepFrame)
         IN  Filtered(self, ForEachEpoch(self.record, Visit))
    ELSE Outcome("Ok", self, <<>>)

\* Rinex::observable_filter_mut
observable_filter_mut(self, filter) ==
    IF is_navigation_rinex(self)
    THEN LET KeepEph(fr) == to_string(fr.msg_type) \in filter
             KeepSto(fr) == fr.system \in filter
             Visit(classes) ==
                 [c \in DOMAIN classes |->
                     IF c = "Ephemeris" THEN SelectSeq(classes[c], KeepEph)
                     ELSE IF c = "SystemTimeOffset" THEN SelectSeq(classes[c], KeepSto)
                     ELSE classes[c]]
         IN  Filtered(self, ForEachEpoch(self.record, Visit))
    ELSE IF is_observation_rinex(self)
    THEN LET KeepCode(code, data) == code \in filter
             VisitSv(obs) == Retain(obs, KeepCode)
             Visit(v) == [v EXCEPT !.sv = ForEach(v.sv, VisitSv)]
         IN  Filtered(self, ForEachEpoch(self.record, Visit))
    ELSE IF is_meteo_rinex(self)
    THEN LET KeepCode(code, data) == to_string(code) \in filter
             Visit(v) == Retain(v, KeepCode)
         IN  Filtered(self, ForEachEpoch(self.record, Visit))
    ELSE IF is_clocks_rinex(self)
    THEN LET KeepType(dtype, data) == to_string(dtype) \in filter
             VisitSystem(data) == Retain(data, KeepType)
             Visit(v) == ForEach(v, VisitSystem)
         IN  Filtered(self, ForEachEpoch(self.record, Visit))
    ELSE Outcome("Ok", self, <<>>)

\* The closure passed to retain by lli_filter(_mut)
LliRetainConsuming(obs, mask) ==
    LET Keep(code, data) == data.lli.some /\ Intersects(data.lli.v, mask)
        kept == Retain(obs, Keep)
    IN  [c \in DOMAIN kept |-> [kept[c] EXCEPT !.lli = None]]

LliRetainDefaultPass(obs, mask) ==
    LET Keep(code, data) == IF data.lli.some THEN Intersects(data.lli.v, mask) ELSE TRUE
    IN  Retain(obs, Keep)

LliRetain(obs, mask) ==
    LET Keep(code, data) == IF data.lli.some THEN Intersects(data.lli.v, mask) ELSE FALSE
    IN  Retain(obs, Keep)

\* The record both forms of the LLI filter build
LliFiltered(rec, mask) ==
    LET VisitSv(obs) == LliRetain(obs, mask)
        Visit(v) == [v EXCEPT !.sv = ForEach(v.sv, VisitSv)]
    IN  ForEachEpoch(rec, Visit)

\* Rinex::lli_filter_mut
lli_filter_mut(self, mask) ==
    IF ~is_observation_rinex(self) THEN Outcome("Ok", self, <<>>)
    ELSE Filtered(self, LliFiltered(self.record, mask))

\* Rinex::lli_filter
lli_filter(self, mask) ==
    IF ~is_observation_rinex(self) THEN Outcome("Ok", self, <<self.record>>)
    ELSE Outcome("Ok", self, <<LliFiltered(self.record, mask)>>)

\* Rinex::minimum_sig_strength_filter_mut
minimum_sig_strength_filter_mut(self, minimum) ==
    IF ~is_observation_rinex(self) THEN Outcome("Ok", self, <<>>)
    ELSE LET Keep(code, data) == IF data.ssi.some THEN data.ssi.v > minimum ELSE FALSE
             VisitSv(obs) == Retain(obs, Keep)
             Visit(v) == [v EXCEPT !.sv = ForEach(v.sv, VisitSv)]
         IN  Filtered(self, ForEachEpoch(self.record, Visit))

\* Rinex::lock_loss_events: the epochs() of lli_filter(LOCK_LOSS)
lock_loss_events(self) ==
    LET filtered == [self EXCEPT !.record = lli_filter(self, LOCK_LOSS).out[1]]
    IN  IF EpochsPanics(filtered) THEN Panic(self)
        ELSE Outcome("Ok", self, <<epochs(filtered)>>)

\* Rinex::lock_loss_filter
lock_loss_filter(self) == lli_filter_mut(self, LOCK_LOSS)

\* Rinex::legacy_nav_filter_mut
legacy_nav_filter_mut(self) ==
    IF ~is_navigation_rinex(self) THEN Outcome("Ok", self, <<>>)
    ELSE LET KeepFrame(fr) == fr.msg_type # "LNAV"
             Visit(classes) == RetainEphemeris(classes, KeepFrame)
         IN  Filtered(self, ForEachEpoch(self.record, Visit))

\* Rinex::modern_nav_filter_mut
modern_nav_filter_mut(self) ==
    IF ~is_navigation_rinex(self) THEN Outcome("Ok", self, <<>>)
    ELSE LET KeepFrame(fr) == fr.msg_type = "LNAV"
             Visit(classes) == RetainEphemeris(classes, KeepFrame)
         IN  Filtered(self, ForEachEpoch(self.record, Visit))

\* for frame in frames.iter() { map.insert(sv, clk) }: the last frame of a
\* vehicle gives its offset
ClockMap(frames) ==
    [sv \in {frames[i].sv : i \in 1 .. Len(frames)} |->
        LET n == CHOOSE j \in 1 .. Len(frames) :
                     /\ frames[j].sv = sv
                     /\ \A k \in j + 1 .. Len(frames) : frames[k].sv # sv
        IN  frames[n].clk]

\* The loop of space_vehicule_clocks_offset over the entries i .. Len(rec)
RECURSIVE ClocksFromKeepEmpty(_, _, _)
ClocksFromKeepEmpty(rec, i, results) ==
    IF i > Len(rec) THEN results
    ELSE LET classes == rec[i].val
         IN  IF "Ephemeris" \in DOMAIN classes
             THEN ClocksFromKeepEmpty(rec, i + 1,
                      BTreeInsert(results, rec[i].epoch, ClockMap(classes["Ephemeris"])))
             ELSE ClocksFromKeepEmpty(rec, i + 1, results)

RECURSIVE ClocksFrom(_, _, _)
ClocksFrom(rec, i, results) ==
    IF i > Len(rec) THEN results
    ELSE LET classes == rec[i].val
         IN  IF "Ephemeris" \in DOMAIN classes
                /\ Cardinality(DOMAIN ClockMap(classes["Ephemeris"])) > 0
             THEN ClocksFrom(rec, i + 1,
                      BTreeInsert(results, rec[i].epoch, ClockMap(classes["Ephemeris"])))
             ELSE ClocksFrom(rec, i + 1, results)

\* Rinex::space_vehicule_clocks_offset
space_vehicule_clocks_offset(self) ==
    IF ~is_navigation_rinex(self) THEN Outcome("Ok", self, <<<<>>>>)
    ELSE Outcome("Ok", self, <<ClocksFrom(self.record, 1, <<>>)>>)

-----------------------------------------------------------------------------
\* The state machine: one Rinex value, and the last call made on it.

Call(op, res, arg, other, pre, out) ==
    [op |-> op, res |-> res, arg |-> arg, other |-> other, pre |-> pre, out |-> out]

\* Records of a parsed file, and of the other file of a merge
SelfRecords == RecordsFrom(0, EpochFlags, {"a"})

OtherRecords == RecordsFrom(0, {"Ok"}, {"b"})

\* Comments of the record section: none, or a "FILE MERGE" line left by
\* another tool at the first date
RecordComments == {<<>>, <<[epoch |-> Epoch(0, "Ok"), content |-> <<MergeMarker(0)>>]>>}

\* Minimum durations and ratios a caller may ask for
Intervals == 0 .. MaxDate + 1

Ratios == 0 .. MaxDate + 2

Init ==
    /\ \E t \in RinexTypes, rec \in SelfRecords, rc \in RecordComments :
           rnx = Rinex(t, <<>>, rc, rec)
    /\ last = Call("new", "Ok", 0, <<>>, rnx, <<>>)

\* A RINEX type other than t, for a file whose header cannot be merged
OtherType(t) == IF t = "MeteoData" THEN "ObservationData" ELSE "MeteoData"

\* The files a caller may merge into self: any file of self's type, and a
\* file of another type
OtherFiles(self) ==
    {Rinex(self.header.rinex_type, <<>>, <<>>, rec) : rec \in OtherRecords}
        \cup {Rinex(OtherType(self.header.rinex_type), <<>>, <<>>,
                    <<Entry(Epoch(0, "Ok"), "b")>>)}

\* Readings of the wall clock
Clock == {0, MaxDate}

Call_merge_mut ==
    /\ Len(rnx.header.comments) < MaxComments
    /\ \E other \in OtherFiles(rnx), now \in Clock :
           LET o == merge_mut(rnx, other, now)
           IN  /\ rnx' = o.self
               /\ last' = Call("merge_mut", o.res, other.header.rinex_type,
                               other.record, rnx, o.out)

Call_split_merged_records ==
    LET o == split_merged_records(rnx)
    IN  /\ rnx' = o.self
        /\ last' = Call("split_merged_records", o.res, 0, <<>>, rnx, o.out)

Call_split_record_at_epoch ==
    \E d \in Dates :
        LET o == split_record_at_epoch(rnx, Epoch(d, "Ok"))
        IN  /\ rnx' = o.self
            /\ last' = Call("split_record_at_epoch", o.res, d, <<>>, rnx, o.out)

Call_decimate_by_interval_mut ==
    \E interval \in Intervals :
        LET o == decimate_by_interval_mut(rnx, interval)
        IN  /\ rnx' = o.self
            /\ last' = Call("decimate_by_interval_mut", o.res, interval, <<>>, rnx, o.out)

Call_decimate_by_interval ==
    \E interval \in Intervals :
        LET o == decimate_by_interval(rnx, interval)
        IN  /\ rnx' = o.self
            /\ last' = Call("decimate_by_interval", o.res, interval, <<>>, rnx, o.out)

Call_decimate_by_ratio_mut ==
    \E ratio \in Ratios :
        LET o == decimate_by_ratio_mut(rnx, ratio)
        IN  /\ rnx' = o.self
            /\ last' = Call("decimate_by_ratio_mut", o.res, ratio, <<>>, rnx, o.out)

Call_decimate_by_ratio ==
    \E ratio \in Ratios :
        LET o == decimate_by_ratio(rnx, ratio)
        IN  /\ rnx' = o.self
            /\ last' = Call("decimate_by_ratio", o.res, ratio, <<>>, rnx, o.out)

Call_epoch_ok_filter_mut ==
    LET o == epoch_ok_filter_mut(rnx)
    IN  /\ rnx' = o.self
        /\ last' = Call("epoch_ok_filter_mut", o.res, 0, <<>>, rnx, o.out)

Call_epoch_nok_filter_mut ==
    LET o == epoch_nok_filter_mut(rnx)
    IN  /\ rnx' = o.self
        /\ last' = Call("epoch_nok_filter_mut", o.res, 0, <<>>, rnx, o.out)

Call_epoch_ok_filter ==
    LET o == epoch_ok_filter(rnx)
    IN  /\ rnx' = o.self
        /\ last' = Call("epoch_ok_filter", o.res, 0, <<>>, rnx, o.out)

Call_epoch_nok_filter ==
    LET o == epoch_nok_filter(rnx)
    IN  /\ rnx' = o.self
        /\ last' = Call("epoch_nok_filter", o.res, 0, <<>>, rnx, o.out)

Next ==
    \/ Call_merge_mut
    \/ Call_split_merged_records
    \/ Call_split_record_at_epoch
    \/ Call_decimate_by_interval_mut
    \/ Call_decimate_by_interval
    \/ Call_decimate_by_ratio_mut
    \/ Call_decimate_by_ratio
    \/ Call_epoch_ok_filter_mut
    \/ Call_epoch_nok_filter_mut
    \/ Call_epoch_ok_filter
    \/ Call_epoch_nok_filter

Spec == Init /\ [][Next]_vars

\* epochs.retain(|e| ..) of data_gap over the epochs i .. Len(es), prev being
\* the date of the last epoch retained
RECURSIVE RetainWithin(_, _, _, _)
RetainWithin(es, i, prev, interval) ==
    IF i > Len(es) THEN <<>>
    ELSE IF es[i].date - prev <= interval
         THEN <<es[i]>> \o RetainWithin(es, i + 1, es[i].date, interval)
         ELSE RetainWithin(es, i + 1, prev, interval)

\* Rinex::data_gap
data_gap(self) ==
    IF ~self.header.sampling_interval.some THEN Outcome("Ok", self, <<<<>>>>)
    ELSE IF EpochsPanics(self) \/ Len(self.record) = 0 THEN Panic(self)
    ELSE Outcome("Ok", self,
             <<RetainWithin(epochs(self), 1, epochs(self)[1].date,
                            self.header.sampling_interval.v)>>)

\* sum += (epochs[i].date - epochs[i-1].date).num_seconds(), for i in n .. len
RECURSIVE SumOfIntervals(_, _)
SumOfIntervals(es, n) ==
    IF n > Len(es) THEN 0
    ELSE (es[n].date - es[n - 1].date) + SumOfIntervals(es, n + 1)

\* Rinex::average_epoch_duration, in seconds
average_epoch_duration(self) ==
    IF EpochsPanics(self) \/ Len(self.record) = 0 THEN Panic(self)
    ELSE Outcome("Ok", self, <<SumOfIntervals(epochs(self), 2) \div Len(epochs(self))>>)

-----------------------------------------------------------------------------
\* Decimation by interval and statistics of the sampling, on files that hold
\* up to three epochs, with or without an INTERVAL line in their header.

IntervalRecords == RecordsUpTo(0, MaxDate + 1, {"Ok"}, {"a"})

SamplingIntervals == {None, Some(1)}

LongIntervals == 0 .. MaxDate + 2

InitInterval ==
    /\ \E t \in RinexTypes, rec \in IntervalRecords, si \in SamplingIntervals :
           rnx = [Rinex(t, <<>>, <<>>, rec) EXCEPT !.header.sampling_interval = si]
    /\ last = Call("new", "Ok", 0, <<>>, rnx, <<>>)

Call_decimate_by_long_interval_mut ==
    \E interval \in LongIntervals :
        LET o == decimate_by_interval_mut(rnx, interval)
        IN  /\ rnx' = o.self
            /\ last' = Call("decimate_by_interval_mut", o.res, interval, <<>>, rnx, o.out)

Call_decimate_by_long_interval ==
    \E interval \in LongIntervals :
        LET o == decimate_by_interval(rnx, interval)
        IN  /\ rnx' = o.self
            /\ last' = Call("decimate_by_interval", o.res, interval, <<>>, rnx, o.out)

Call_data_gap ==
    LET o == data_gap(rnx)
    IN  /\ rnx' = o.self
        /\ last' = Call("data_gap", o.res, 0, <<>>, rnx, o.out)

Call_average_epoch_duration ==
    LET o == average_epoch_duration(rnx)
    IN  /\ rnx' = o.self
        /\ last' = Call("average_epoch_duration", o.res, 0, <<>>, rnx, o.out)

NextInterval ==
    \/ Call_decimate_by_long_interval_mut
    \/ Call_decimate_by_long_interval
    \/ Call_data_gap
    \/ Call_average_epoch_duration

SpecInterval == InitInterval /\ [][NextInterval]_vars

-----------------------------------------------------------------------------
\* The classification macros applied to an observable code read from a
\* file, which last.arg holds.

\* First letters of the observation codes of RINEX 2 and 3: pseudo range,
\* legacy P-code range, phase, doppler, signal strength, ionosphere phase
\* delay and receiver channel number
ObsTypeLetters == {"C", "P", "L", "D", "S", "I", "X"}

\* Characters that follow: band digits and tracking attributes
CodeChars == ObsTypeLetters \cup {"1", "2"}

RECURSIVE Suffixes(_)
Suffixes(n) ==
    IF n = 0 THEN {<<>>}
    ELSE LET shorter == Suffixes(n - 1)
         IN  shorter \cup {<<c>> \o w : c \in CodeChars, w \in {x \in shorter : Len(x) = n - 1}}

ObsCodes == {<<t>> \o w : t \in ObsTypeLetters, w \in Suffixes(MaxCodeLen - 1)}

Bool(b) == IF b THEN "true" ELSE "false"

InitCodes ==
    /\ rnx = Rinex("ObservationData", <<>>, <<>>, <<>>)
    /\ \E code \in ObsCodes : last = Call("new", "Ok", code, <<>>, rnx, <<>>)

Call_is_pseudo_range_obs_code ==
    /\ last' = Call("is_pseudo_range_obs_code", Bool(is_pseudo_range_obs_code(last.arg)),
                    last.arg, <<>>, rnx, <<>>)
    /\ UNCHANGED rnx

Call_is_phase_carrier_obs_code ==
    /\ last' = Call("is_phase_carrier_obs_code", Bool(is_phase_carrier_obs_code(last.arg)),
                    last.arg, <<>>, rnx, <<>>)
    /\ UNCHANGED rnx

Call_is_doppler_obs_code ==
    /\ last' = Call("is_doppler_obs_code", Bool(is_doppler_obs_code(last.arg)),
                    last.arg, <<>>, rnx, <<>>)
    /\ UNCHANGED rnx

Call_is_sig_strength_obs_code ==
    /\ last' = Call("is_sig_strength_obs_code", Bool(is_sig_strength_obs_code(last.arg)),
                    last.arg, <<>>, rnx, <<>>)
    /\ UNCHANGED rnx

NextCodes ==
    \/ Call_is_pseudo_range_obs_code
    \/ Call_is_phase_carrier_obs_code
    \/ Call_is_doppler_obs_code
    \/ Call_is_sig_strength_obs_code

SpecCodes == InitCodes /\ [][NextCodes]_vars

-----------------------------------------------------------------------------
\* The filters, on files whose records carry their payload.

G07 == Sv("GPS", 7)

G08 == Sv("GPS", 8)

R01 == Sv("Glonass", 1)

C1 == <<"C", "1">>

L1 == <<"L", "1">>

GPUT == <<"G", "P", "U", "T">>

GAUT == <<"G", "A", "U", "T">>

HALF_CYCLE_SLIP == {"HALF_CYCLE_SLIP"}

\* Option<LliFlags>: absent, no bit set (OK_OR_UNKNOWN), or one bit
Llis == {None, Some({}), Some(LOCK_LOSS), Some(HALF_CYCLE_SLIP)}

\* Option<Ssi>: absent, or a level of the Ssi scale
Ssis == {None} \cup {Some(n) : n \in 0 .. MaxSsi}

ObsDatas == {ObservationData(l, s) : l \in Llis, s \in Ssis}

\* Observation records: a first epoch with two vehicles, one observation of
\* which ranges over ObsDatas, and possibly a second epoch with one vehicle
ObsFirst(x) ==
    Entry(Epoch(0, "Ok"),
          [clk |-> None,
           sv |-> (G07 :> ((C1 :> x) @@ (L1 :> ObservationData(Some({}), Some(MaxSsi)))))
                      @@ (R01 :> (C1 :> ObservationData(None, None)))])

ObsSecond(f, y) == Entry(Epoch(MaxDate, f), [clk |-> None, sv |-> (G08 :> (C1 :> y))])

ObsRecords ==
    {<<ObsFirst(x)>> : x \in ObsDatas}
        \cup {<<ObsFirst(x), ObsSecond(f, y)>> :
                  x \in ObsDatas, f \in EpochFlags,
                  y \in {ObservationData(Some({}), Some(0)),
                         ObservationData(Some(LOCK_LOSS), None)}}

\* Navigation records: ephemeris frames of three vehicles, two of them for
\* G07, and system time offset frames
NavFrames ==
    <<Eph("LNAV", G07, 1), Eph("CNAV", G08, 2), Eph("LNAV", R01, 3), Eph("CNAV", G07, 4)>>

EphVecs ==
    {LET Chosen(fr) == \E i \in picked : NavFrames[i] = fr IN SelectSeq(NavFrames, Chosen) :
         picked \in SUBSET (1 .. Len(NavFrames))}

NavFirst(frames) ==
    Entry(Epoch(0, "Ok"),
          ("Ephemeris" :> frames) @@ ("SystemTimeOffset" :> <<Sto(GPUT), Sto(GAUT)>>))

NavSecond(frames) == Entry(Epoch(MaxDate, "Ok"), ("Ephemeris" :> frames))

NavRecords ==
    {<<NavFirst(v)>> : v \in EphVecs}
        \cup {<<NavFirst(v), NavSecond(w)>> :
                  v \in EphVecs,
                  w \in {<<NavFrames[1]>>, <<NavFrames[2]>>, <<NavFrames[1], NavFrames[3]>>}}

MeteoRecords == {<<Entry(Epoch(0, "Ok"), ("Pressure" :> "a") @@ ("Temperature" :> "a"))>>}

ClockRecords == {<<Entry(Epoch(0, "Ok"), (G07 :> (("Ar" :> "a") @@ ("As" :> "a"))))>>}

FilterRecords(t) ==
    CASE t = "ObservationData" -> ObsRecords
      [] t = "NavigationData" -> NavRecords
      [] t = "MeteoData" -> MeteoRecords
      [] t = "ClockData" -> ClockRecords
      [] OTHER -> {<<Entry(Epoch(0, "Ok"), "a")>>}

InitFilter ==
    /\ \E t \in RinexTypes : \E rec \in FilterRecords(t) : rnx = Rinex(t, <<>>, <<>>, rec)
    /\ last = Call("new", "Ok", 0, <<>>, rnx, <<>>)

\* Arguments a caller may pass
ConstellationFilters == {{"GPS"}, {"Glonass"}, {}}

SvFilters == {{G07}, {G07, G08}, {R01}}

ObservableFilters ==
    {{C1, to_string("LNAV"), to_string("Pressure"), to_string("Ar")}, {L1, GPUT}, {}}

LliMasks == {LOCK_LOSS, LOCK_LOSS \cup HALF_CYCLE_SLIP}

SsiMinimums == 0 .. MaxSsi

Call_constellation_filter_mut ==
    \E filter \in ConstellationFilters :
        LET o == constellation_filter_mut(rnx, filter)
        IN  /\ rnx' = o.self
            /\ last' = Call("constellation_filter_mut", o.res, filter, <<>>, rnx, o.out)

Call_space_vehicule_filter_mut ==
    \E filter \in SvFilters :
        LET o == space_vehicule_filter_mut(rnx, filter)
        IN  /\ rnx' = o.self
            /\ last' = Call("space_vehicule_filter_mut", o.res, filter, <<>>, rnx, o.out)

Call_observable_filter_mut ==
    \E filter \in ObservableFilters :
        LET o == observable_filter_mut(rnx, filter)
        IN  /\ rnx' = o.self
            /\ last' = Call("observable_filter_mut", o.res, filter, <<>>, rnx, o.out)

Call_lli_filter_mut ==
    \E mask \in LliMasks :
        LET o == lli_filter_mut(rnx, mask)
        IN  /\ rnx' = o.self
            /\ last' = Call("lli_filter_mut", o.res, mask, <<>>, rnx, o.out)

Call_lli_filter ==
    \E mask \in LliMasks :
        LET o == lli_filter(rnx, mask)
        IN  /\ rnx' = o.self
            /\ last' = Call("lli_filter", o.res, mask, <<>>, rnx, o.out)

Call_minimum_sig_strength_filter_mut ==
    \E minimum \in SsiMinimums :
        LET o == minimum_sig_strength_filter_mut(rnx, minimum)
        IN  /\ rnx' = o.self
            /\ last' = Call("minimum_sig_strength_filter_mut", o.res, minimum, <<>>, rnx, o.out)

Call_lock_loss_events ==
    LET o == lock_loss_events(rnx)
    IN  /\ rnx' = o.self
        /\ last' = Call("lock_loss_events", o.res, 0, <<>>, rnx, o.out)

Call_lock_loss_filter ==
    LET o == lock_loss_filter(rnx)
    IN  /\ rnx' = o.self
        /\ last' = Call("lock_loss_filter", o.res, 0, <<>>, rnx, o.out)

Call_legacy_nav_filter_mut ==
    LET o == legacy_nav_filter_mut(rnx)
    IN  /\ rnx' = o.self
        /\ last' = Call("legacy_nav_filter_mut", o.res, 0, <<>>, rnx, o.out)

Call_modern_nav_filter_mut ==
    LET o == modern_nav_filter_mut(rnx)
    IN  /\ rnx' = o.self
        /\ last' = Call("modern_nav_filter_mut", o.res, 0, <<>>, rnx, o.out)

Call_space_vehicule_clocks_offset ==
    LET o == space_vehicule_clocks_offset(rnx)
    IN  /\ rnx' = o.self
        /\ last' = Call("space_vehicule_clocks_offset", o.res, 0, <<>>, rnx, o.out)

NextFilter ==
    \/ Call_constellation_filter_mut
    \/ Call_space_vehicule_filter_mut
    \/ Call_observable_filter_mut
    \/ Call_lli_filter_mut
    \/ Call_lli_filter
    \/ Call_minimum_sig_strength_filter_mut
    \/ Call_lock_loss_events
    \/ Call_lock_loss_filter
    \/ Call_legacy_nav_filter_mut
    \/ Call_modern_nav_filter_mut
    \/ Call_space_vehicule_clocks_offset
    \/ Call_epoch_ok_filter_mut
    \/ Call_epoch_nok_filter_mut
    \/ Call_epoch_ok_filter
    \/ Call_epoch_nok_filter

SpecFilter == InitFilter /\ [][NextFilter]_vars

-----------------------------------------------------------------------------
\* f64 arithmetic, rounded to nearest with ties to even, carrying
\* MantissaBits bits of precision where the machine carries 53.  A finite
\* value is s * m * 2^e, with m = 0 or 2^(MantissaBits-1) <= m < 2^MantissaBits.

RECURSIVE Pow2(_)
Pow2(n) == IF n = 0 THEN 1 ELSE 2 * Pow2(n - 1)

RECURSIVE BitLen(_)
BitLen(n) == IF n = 0 THEN 0 ELSE 1 + BitLen(n \div 2)

Finite(s, m, e) == [kind |-> "finite", s |-> s, m |-> m, e |-> e]

Zero == Finite(1, 0, 0)

Infinite(s) == [kind |-> "inf", s |-> s, m |-> 0, e |-> 0]

NaN == [kind |-> "nan", s |-> 1, m |-> 0, e |-> 0]

\* The value nearest to s * n * 2^e
Normalize(s, n, e) ==
    IF n = 0 THEN Zero
    ELSE LET k == BitLen(n) - MantissaBits
         IN  IF k <= 0 THEN Finite(s, n * Pow2(0 - k), e + k)
             ELSE LET q == n \div Pow2(k)
                      r == n % Pow2(k)
                      half == Pow2(k - 1)
                      m == IF r > half \/ (r = half /\ q % 2 = 1) THEN q + 1 ELSE q
                  IN  IF m = Pow2(MantissaBits)
                      THEN Finite(s, Pow2(MantissaBits - 1), e + k + 1)
                      ELSE Finite(s, m, e + k)

\* An integer literal, and a decimal literal p / q >= 1
FromInt(n) == IF n < 0 THEN Normalize(-1, 0 - n, 0) ELSE Normalize(1, n, 0)

FromRatio(p, q) ==
    LET num == p * Pow2(MantissaBits + 2)
        sticky == IF num % q = 0 THEN 0 ELSE 1
    IN  Normalize(1, 2 * (num \div q) + sticky, 0 - (MantissaBits + 3))

\* a * b
FMul(a, b) ==
    IF a.kind = "nan" \/ b.kind = "nan" THEN NaN
    ELSE IF a.kind = "inf" \/ b.kind = "inf"
         THEN IF a = Zero \/ b = Zero THEN NaN ELSE Infinite(a.s * b.s)
         ELSE Normalize(a.s * b.s, a.m * b.m, a.e + b.e)

\* a - b
FSub(a, b) ==
    IF a.kind = "nan" \/ b.kind = "nan" THEN NaN
    ELSE IF a.kind = "inf"
         THEN IF b.kind = "inf" /\ b.s = a.s THEN NaN ELSE a
         ELSE IF b.kind = "inf" THEN Infinite(0 - b.s)
         ELSE IF b = Zero THEN a
         ELSE IF a = Zero THEN Finite(0 - b.s, b.m, b.e)
         ELSE LET e == IF a.e < b.e THEN a.e ELSE b.e
                  d == a.s * a.m * Pow2(a.e - e) - b.s * b.m * Pow2(b.e - e)
              IN  IF d < 0 THEN Normalize(-1, 0 - d, e) ELSE Normalize(1, d, e)

\* a / b
FDiv(a, b) ==
    IF a.kind = "nan" \/ b.kind = "nan" THEN NaN
    ELSE IF a.kind = "inf"
         THEN IF b.kind = "inf" THEN NaN ELSE Infinite(a.s * b.s)
         ELSE IF b.kind = "inf" THEN Zero
         ELSE IF b = Zero THEN IF a = Zero THEN NaN ELSE Infinite(a.s)
         ELSE IF a = Zero THEN Zero
         ELSE LET num == a.m * Pow2(MantissaBits + 2)
                  sticky == IF num % b.m = 0 THEN 0 ELSE 1
              IN  Normalize(a.s * b.s, 2 * (num \div b.m) + sticky,
                            a.e - b.e - (MantissaBits + 3))

\* f64::powf(x, 2.0)
Squared(x) == FMul(x, x)

-----------------------------------------------------------------------------
\* Observables derived from an Observation record: pseudo ranges, carrier
\* phases, their ionosphere free combinations, and ranges corrected of the
\* clock offsets.  The observations of a vehicle are a HashMap, which a loop
\* visits in an order of the hasher's choosing: `order` lists the codes in
\* that order.

\* observation::record::ObservationData with its measurement
Measurement(obs) == [obs |-> obs, lli |-> None, ssi |-> None]

P1 == <<"P", "1">>

C2 == <<"C", "2">>

C0 == <<"C", "0">>

L2 == <<"L", "2">>

AllCodes == <<C1, P1, C2, C0, L1, L2>>

\* for (code, data) in obs.iter()
Iter(obs, order) ==
    LET Held(code) == code \in DOMAIN obs IN SelectSeq(order, Held)

\* Channel::from_observable: the carrier that the band digit of the code
\* names in the constellation
from_observable(constellation, code) ==
    IF Len(code) < 2 THEN None
    ELSE CASE constellation = "GPS" /\ code[2] = "1" -> Some("L1")
           [] constellation = "GPS" /\ code[2] = "2" -> Some("L2")
           [] constellation = "GPS" /\ code[2] = "5" -> Some("L5")
           [] constellation = "Glonass" /\ code[2] = "1" -> Some("G1")
           [] constellation = "Glonass" /\ code[2] = "2" -> Some("G2")
           [] OTHER -> None

\* Channel::carrier_frequency_mhz
carrier_frequency_mhz(channel) ==
    CASE channel = "L1" -> FromRatio(157542, 100)
      [] channel = "L2" -> FromRatio(122760, 100)
      [] channel = "L5" -> FromRatio(117645, 100)
      [] channel = "G1" -> FromRatio(160200, 100)
      [] channel = "G2" -> FromRatio(124600, 100)

\* ObservationData::pr_real_distance(rcvr_offset, sv_offset, biases): the
\* range corrected of the two clock offsets, kept as the terms it is made of
pr_real_distance(data, rcvr_offset, sv_offset) ==
    [raw |-> data.obs, rcvr_offset |-> rcvr_offset, sv_offset |-> sv_offset]

\* The (code, value) pairs pushed while visiting the observations of a vehicle
Pushed(obs, order, IsClass(_), Value(_)) ==
    LET codes == SelectSeq(Iter(obs, order), IsClass)
    IN  [i \in 1 .. Len(codes) |-> <<codes[i], Value(obs[codes[i]])>>]

\* map.insert(sv, v) for the vehicles with v.len() > 0
VehiclesWith(svs, order, IsClass(_), Value(_)) ==
    [sv \in {x \in DOMAIN svs : Len(Pushed(svs[x], order, IsClass, Value)) > 0} |->
        Pushed(svs[sv], order, IsClass, Value)]

\* results.insert(e, map) for the epochs with map.len() > 0, in the order of
\* the record
EpochsWith(maps) ==
    LET Produced(entry) == Cardinality(DOMAIN entry.val) > 0
    IN  SelectSeq(maps, Produced)

Raw(data) == data.obs

\* Rinex::pseudo_ranges
pseudo_ranges(self, order) ==
    IF ~is_observation_rinex(self) THEN <<>>
    ELSE EpochsWith([i \in 1 .. Len(self.record) |->
             Entry(self.record[i].epoch,
                   VehiclesWith(self.record[i].val.sv, order, is_pseudo_range_obs_code, Raw))])

\* Rinex::carrier_phases
carrier_phases(self, order) ==
    IF ~is_observation_rinex(self) THEN <<>>
    ELSE EpochsWith([i \in 1 .. Len(self.record) |->
             Entry(self.record[i].epoch,
                   VehiclesWith(self.record[i].val.sv, order, is_phase_carrier_obs_code, Raw))])

\* The differential compensation of the first two retained observables
DualFrequency(sv, obs, IsClass(_)) ==
    LET Kept(pair) == IsClass(pair[1])
        retained == SelectSeq(obs, Kept)
    IN  IF Len(retained) > 1
        THEN LET Resolved(pair) == from_observable(sv.constellation, pair[1]).some
                 channels == SelectSeq(SubSeq(retained, 1, 2), Resolved)
             IN  IF Len(channels) = 2
                 THEN LET Hz(pair) ==
                              FMul(carrier_frequency_mhz(
                                       from_observable(sv.constellation, pair[1]).v),
                                   FromInt(1000000))
                          f0 == Squared(Hz(channels[1]))
                          f1 == Squared(Hz(channels[2]))
                      IN  Some(FDiv(FSub(FMul(f0, retained[1][2]), FMul(f1, retained[2][2])),
                                    FSub(f0, f1)))
                 ELSE None
        ELSE None

\* The loops of iono_free_pseudo_ranges and iono_free_carrier_phases over the
\* extracted observables
IonoFree(extracted, IsClass(_)) ==
    EpochsWith([i \in 1 .. Len(extracted) |->
        LET svs == extracted[i].val
        IN  Entry(extracted[i].epoch,
                  [sv \in {x \in DOMAIN svs : DualFrequency(x, svs[x], IsClass).some} |->
                      DualFrequency(sv, svs[sv], IsClass).v])])

\* Rinex::iono_free_pseudo_ranges
iono_free_pseudo_ranges(self, order) ==
    IonoFree(pseudo_ranges(self, order), is_pseudo_range_obs_code)

\* Rinex::iono_free_carrier_phases, which reads pseudo_ranges()
iono_free_carrier_phases(self, order) ==
    IonoFree(pseudo_ranges(self, order), is_phase_carrier_obs_code)

\* The loop of pseudo_range_to_distance over the vehicles of an epoch, which
\* inserts the list of a vehicle whatever its length
DistancesOfKeepEmpty(svs, clk, distant_e, order) ==
    [sv \in DOMAIN svs \cap DOMAIN distant_e |->
        LET Distance(data) == pr_real_distance(data, clk, distant_e[sv])
        IN  Pushed(svs[sv], order, is_pseudo_range_obs_code, Distance)]

DistancesOf(svs, clk, distant_e, order) ==
    [sv \in {x \in DOMAIN svs \cap DOMAIN distant_e :
                 Len(SelectSeq(Iter(svs[x], order), is_pseudo_range_obs_code)) > 0} |->
        LET Distance(data) == pr_real_distance(data, clk, distant_e[sv])
        IN  Pushed(svs[sv], order, is_pseudo_range_obs_code, Distance)]

\* Rinex::pseudo_range_to_distance
pseudo_range_to_distance(self, sv_clk_offsets, order) ==
    IF ~is_observation_rinex(self) THEN <<>>
    ELSE EpochsWith([i \in 1 .. Len(self.record) |->
             LET e == self.record[i].epoch
                 clk == self.record[i].val.clk
             IN  IF e.date \in DateSet(sv_clk_offsets) /\ clk.some
                 THEN Entry(e, DistancesOf(self.record[i].val.sv, clk.v,
                                           ValueAt(sv_clk_offsets, e.date), order))
                 ELSE Entry(e, <<>>)])

\* Measurements: every value of one binade, which the format holds exactly
ObsValues == {FromInt(n) : n \in Pow2(MantissaBits - 1) .. Pow2(MantissaBits) - 1}

\* Codes observed for a vehicle: two carriers, one carrier twice, a band no
\* carrier is known for, phases with or without ranges
CodeSets == {{C1, C2}, {C1, P1}, {C1, P1, C2}, {C1, C0}, {C1}, {L1, L2}, {C1, L1, L2}, {L1}}

Measured(codes, v, w) == [c \in codes |-> Measurement(IF c \in {C1, L1} THEN v ELSE w)]

\* Observation records of two epochs: three vehicles, the first of which
\* observes the codes of a set, the second only a phase
DerivedRecord(clk, codes, v, w) ==
    <<Entry(Epoch(0, "Ok"),
            [clk |-> clk,
             sv |-> (G07 :> Measured(codes, v, w)) @@ (R01 :> (L1 :> Measurement(v)))]),
      Entry(Epoch(MaxDate, "Ok"),
            [clk |-> Some(2), sv |-> (G08 :> Measured({C1, C2}, w, v))])>>

DerivedRecords ==
    UNION {{DerivedRecord(clk, codes, v, w) : clk \in {None, Some(1)}, codes \in CodeSets,
                                              w \in {v, FromInt(Pow2(MantissaBits - 1))}} :
               v \in ObsValues}

\* Orders of iteration: any two codes of a class may come first
Front(a, b) ==
    LET Others(c) == c \notin {a, b} IN <<a, b>> \o SelectSeq(AllCodes, Others)

HashOrders ==
    {Front(p[1], p[2]) :
         p \in {q \in Range(AllCodes) \X Range(AllCodes) :
                    /\ q[1] # q[2]
                    /\ is_pseudo_range_obs_code(q[1]) = is_pseudo_range_obs_code(q[2])}}

\* Clock offsets of the vehicles, as a Navigation file gives them
ClockOffsets ==
    {<<>>,
     <<Entry(Epoch(0, "Ok"), (G07 :> 3))>>,
     <<Entry(Epoch(0, "Ok"), (G07 :> 3) @@ (R01 :> 4)), Entry(Epoch(MaxDate, "Ok"), (G08 :> 5))>>}

\* last.arg holds the order of the hasher, last.other the clock offsets
InitDerived ==
    /\ \/ \E rec \in DerivedRecords : rnx = Rinex("ObservationData", <<>>, <<>>, rec)
       \/ rnx = Rinex("NavigationData", <<>>, <<>>, <<Entry(Epoch(0, "Ok"), "a")>>)
    /\ \/ \E order \in HashOrders : last = Call("new", "Ok", order, <<>>, rnx, <<>>)
       \/ \E offsets \in ClockOffsets : last = Call("new", "Ok", AllCodes, offsets, rnx, <<>>)

Call_pseudo_ranges ==
    /\ last' = Call("pseudo_ranges", "Ok", last.arg, last.other, rnx,
                    <<pseudo_ranges(rnx, last.arg)>>)
    /\ UNCHANGED rnx

Call_carrier_phases ==
    /\ last' = Call("carrier_phases", "Ok", last.arg, last.other, rnx,
                    <<carrier_phases(rnx, last.arg)>>)
    /\ UNCHANGED rnx

Call_iono_free_pseudo_ranges ==
    /\ last' = Call("iono_free_pseudo_ranges", "Ok", last.arg, last.other, rnx,
                    <<iono_free_pseudo_ranges(rnx, last.arg)>>)
    /\ UNCHANGED rnx

Call_iono_free_carrier_phases ==
    /\ last' = Call("iono_free_carrier_phases", "Ok", last.arg, last.other, rnx,
                    <<iono_free_carrier_phases(rnx, last.arg)>>)
    /\ UNCHANGED rnx

Call_pseudo_range_to_distance ==
    /\ last' = Call("pseudo_range_to_distance", "Ok", last.arg, last.other, rnx,
                    <<pseudo_range_to_distance(rnx, last.other, last.arg)>>)
    /\ UNCHANGED rnx

NextDerived ==
    \/ Call_pseudo_ranges
    \/ Call_carrier_phases
    \/ Call_iono_free_pseudo_ranges
    \/ Call_iono_free_carrier_phases
    \/ Call_pseudo_range_to_distance

SpecDerived == InitDerived /\ [][NextDerived]_vars

-----------------------------------------------------------------------------
\* Values built by Rinex::new from any header and any record, and given
\* another header by with_header.

\* Record::as_mut_nav(), as_mut_obs(), ..: None when the record holds another
\* variant than the one the arm of the header's type asks for, and unwrap()
\* panics
Unwrapped(self, o) == IF self.variant # self.header.rinex_type THEN Panic(self) ELSE o

VariantRecords == RecordsFrom(0, {"Ok"}, {"a"})

InitVariant ==
    /\ \E t \in RinexTypes, variant \in RinexTypes, rec \in VariantRecords :
           rnx = new(Header(t, <<>>), variant, rec)
    /\ last = Call("new", "Ok", 0, <<>>, rnx, <<>>)

Call_with_header ==
    \E t \in RinexTypes :
        /\ rnx' = with_header(rnx, Header(t, <<>>))
        /\ last' = Call("with_header", "Ok", t, <<>>, rnx, <<>>)

Call_unwrapped_decimate_by_ratio_mut ==
    \E ratio \in Ratios :
        LET o == Unwrapped(rnx, decimate_by_ratio_mut(rnx, ratio))
        IN  /\ rnx' = o.self
            /\ last' = Call("decimate_by_ratio_mut", o.res, ratio, <<>>, rnx, o.out)

NextVariant ==
    \/ Call_with_header
    \/ Call_unwrapped_decimate_by_ratio_mut

SpecVariant == InitVariant /\ [][NextVariant]_vars

-----------------------------------------------------------------------------
\* Splitting files whose header carries "FILE MERGE" comments that another
\* tool wrote in the format merge_boundaries parses.

\* A marker whose text parses to the date d
ParsedMarker(d) ==
    [merge |-> TRUE, tail |-> <<Field("digits", d \div SecondsPerDay), Field("month", d)>>]

\* Any other comment line
PlainComment == [merge |-> FALSE, tail |-> <<>>]

HeaderLines == {ParsedMarker(d) : d \in 0 .. MaxDate + 2} \cup {PlainComment, MergeMarker(0)}

RECURSIVE HeaderComments(_)
HeaderComments(n) ==
    IF n = 0 THEN {<<>>}
    ELSE LET shorter == HeaderComments(n - 1)
         IN  shorter \cup {Append(hc, c) : hc \in shorter, c \in HeaderLines}

InitSplit ==
    /\ \E t \in RinexTypes, rec \in IntervalRecords, hc \in HeaderComments(MaxComments + 1) :
           rnx = Rinex(t, hc, <<>>, rec)
    /\ last = Call("new", "Ok", 0, <<>>, rnx, <<>>)

Call_split_marked_records ==
    LET o == split_merged_records(rnx)
    IN  /\ rnx' = o.self
        /\ last' = Call("split_merged_records", o.res, 0, <<>>, rnx, o.out)

NextSplit == Call_split_marked_records

SpecSplit == InitSplit /\ [][NextSplit]_vars

-----------------------------------------------------------------------------
\* The version check of the header parser, on the version field of the first
\* line, which last.arg holds.  Strings are sequences of characters and
\* numbers are kept as their decimal digits, without leading zeros, so that
\* the range of u32 is the real one.

DecimalDigits == <<"0", "1", "2", "3", "4", "5", "6", "7", "8", "9">>

DigitValue(c) == CHOOSE i \in 1 .. Len(DecimalDigits) : DecimalDigits[i] = c

\* header::SUPPORTED_VERSION
SUPPORTED_VERSION == <<"3", ".", "0", "4">>

\* u32::MAX
U32Max == <<"4", "2", "9", "4", "9", "6", "7", "2", "9", "5">>

\* str::split("."): the fields between the dots
RECURSIVE Split(_)
Split(str) ==
    IF \E i \in 1 .. Len(str) : str[i] = "."
    THEN LET dot == CHOOSE i \in 1 .. Len(str) :
                        str[i] = "." /\ \A j \in 1 .. i - 1 : str[j] # "."
         IN  <<SubSeq(str, 1, dot - 1)>> \o Split(SubSeq(str, dot + 1, Len(str)))
    ELSE <<str>>

\* The digits of a number without its leading zeros
RECURSIVE Canonical(_)
Canonical(digits) ==
    IF Len(digits) > 1 /\ digits[1] = "0" THEN Canonical(Tail(digits)) ELSE digits

\* a < b, on canonical digits
NumLess(a, b) ==
    \/ Len(a) < Len(b)
    \/ /\ Len(a) = Len(b)
       /\ \E i \in 1 .. Len(a) :
              /\ DigitValue(a[i]) < DigitValue(b[i])
              /\ \A j \in 1 .. i - 1 : a[j] = b[j]

ParseIntError == [ok |-> FALSE, v |-> <<>>]

\* u32::from_str_radix(src, 10): an optional "+", then digits; Err on an
\* empty string, on any other character and above u32::MAX
from_str_radix(src) ==
    LET digits == IF Len(src) > 0 /\ src[1] = "+" THEN Tail(src) ELSE src
    IN  IF digits = <<>> \/ \E i \in 1 .. Len(digits) : digits[i] \notin Range(DecimalDigits)
        THEN ParseIntError
        ELSE IF NumLess(U32Max, Canonical(digits)) THEN ParseIntError
        ELSE [ok |-> TRUE, v |-> Canonical(digits)]

\* digits.get(n).unwrap_or(&"?")
GetOr(fields, n) == IF n <= Len(fields) THEN fields[n] ELSE <<"?">>

\* The comparison of version_is_supported, the minor one made strict
Compare_strict(target_digit0, target_digit1, digit0, digit1) ==
    IF NumLess(digit0, target_digit0) THEN "Ok(false)"
    ELSE IF target_digit0 = digit0
         THEN IF NumLess(target_digit1, digit1) THEN "Ok(true)" ELSE "Ok(false)"
         ELSE "Ok(true)"

Compare(target_digit0, target_digit1, digit0, digit1) ==
    IF NumLess(digit0, target_digit0) THEN "Ok(false)"
    ELSE IF target_digit0 = digit0
         THEN IF ~NumLess(digit1, target_digit1) THEN "Ok(true)" ELSE "Ok(false)"
         ELSE "Ok(true)"

\* header::version_is_supported
version_is_supported(version) ==
    LET supported_digits == Split(SUPPORTED_VERSION)
        digit0 == from_str_radix(supported_digits[1]).v
        digit1 == from_str_radix(supported_digits[2]).v
        digits == Split(version)
        target_digit0 == from_str_radix(GetOr(digits, 1))
        target_digit1 == from_str_radix(GetOr(digits, 2))
    IN  IF ~target_digit0.ok THEN "Err"
        ELSE IF ~target_digit1.ok THEN "Err"
        ELSE Compare(target_digit0.v, target_digit1.v, digit0, digit1)

\* Characters of a version field: digits around those of the supported
\* version, the dot, signs and a letter
VersionChars == {"0", "3", "4", "5", ".", "+", "-", "a"}

RECURSIVE Strings(_)
Strings(n) ==
    IF n = 0 THEN {<<>>}
    ELSE LET shorter == Strings(n - 1)
         IN  shorter \cup {Append(w, c) : w \in shorter, c \in VersionChars}

\* Fields at the edge of u32, in the twenty columns of the version field
U32Over == <<"4", "2", "9", "4", "9", "6", "7", "2", "9", "6">>

Versions ==
    Strings(MaxVersionLen)
        \cup {U32Max \o <<".", "0">>, U32Over \o <<".", "0">>, <<"3", ".">> \o U32Max,
              <<"3", ".">> \o U32Over, <<"0", ".">> \o U32Over,
              <<"0", ".", "0">> \o U32Over}

InitVersion ==
    /\ rnx = Rinex("ObservationData", <<>>, <<>>, <<>>)
    /\ \E version \in Versions : last = Call("new", "Ok", version, <<>>, rnx, <<>>)

Call_version_is_supported ==
    /\ last' = Call("version_is_supported", version_is_supported(last.arg),
                    last.arg, <<>>, rnx, <<>>)
    /\ UNCHANGED rnx

NextVersion == Call_version_is_supported

SpecVersion == InitVersion /\ [][NextVersion]_vars

-----------------------------------------------------------------------------
\* Properties of the record algebra.

MergeOk == last.op = "merge_mut" /\ last.res = "Ok"

BothNonEmpty == last.pre.record # <<>> /\ last.other # <<>>

\* The wall-clock reading a marker's text stands for
StampTime(tail) == tail[1].v * SecondsPerDay + tail[2].v

\* C1: after any sequence of merge, split, decimation and filter calls on an
\* epoch-keyed record, the keys of self's record and of every record a call
\* returns are strictly ascending, with no duplicate key.
C1_EpochsStrictlyAscending ==
    rnx.header.rinex_type # "AntennaData" =>
        /\ IsSorted(rnx.record)
        /\ \A i \in 1 .. Len(last.out) : IsSorted(last.out[i])

\* A split that follows a merge which had to insert a key before self's keys
C1_Witness ==
    /\ last.op = "split_record_at_epoch" /\ last.res = "Ok"
    /\ Len(rnx.header.comments) > 0
    /\ Len(rnx.record) > 1
    /\ rnx.record[1].val = "b" /\ rnx.record[2].val = "a"
    /\ last.out[1] # <<>> /\ last.out[2] # <<>>

\* C2: a successful merge_mut of two non-empty records leaves in self the
\* union of both key sets; every key of other maps to other's value, every
\* key of self alone keeps self's value.
C2_MergeIsUnionOtherWins ==
    (MergeOk /\ BothNonEmpty) =>
        /\ DateSet(rnx.record) = DateSet(last.pre.record) \cup DateSet(last.other)
        /\ Len(rnx.record) = Cardinality(DateSet(rnx.record))
        /\ \A d \in DateSet(last.other) : ValueAt(rnx.record, d) = ValueAt(last.other, d)
        /\ \A d \in DateSet(last.pre.record) \ DateSet(last.other) :
               ValueAt(rnx.record, d) = ValueAt(last.pre.record, d)

\* A merge with a collision (self's value replaced) and a key of self alone
C2_Witness ==
    /\ MergeOk /\ BothNonEmpty
    /\ \E d \in DateSet(last.other) \cap DateSet(last.pre.record) :
           ValueAt(last.pre.record, d) # ValueAt(last.other, d)
    /\ DateSet(last.pre.record) \ DateSet(last.other) # {}

\* C3: merging an empty other into a non-empty self leaves self's record
\* unchanged and appends nothing to the header comments.
C3_MergeEmptyOtherIsIdentity ==
    (MergeOk /\ last.other = <<>> /\ last.pre.record # <<>>) =>
        /\ rnx.record = last.pre.record
        /\ rnx.header.comments = last.pre.header.comments

C3_Witness == MergeOk /\ last.other = <<>> /\ last.pre.record # <<>>

\* C4: merging into an empty self makes self's record equal to other's
\* record and appends nothing to the header comments.
C4_MergeIntoEmptyIsReplacement ==
    (MergeOk /\ last.pre.record = <<>>) =>
        /\ rnx.record = last.other
        /\ rnx.header.comments = last.pre.header.comments

C4_Witness == MergeOk /\ last.pre.record = <<>> /\ Len(last.other) > 1

\* C5: after a successful merge_mut of two non-empty records, is_merged()
\* is true of self.
C5_IsMergedAfterMerge == (MergeOk /\ BothNonEmpty) => is_merged(rnx)

\* C6: merge_boundaries() returns, for every marker merge_mut appends, the
\* wall-clock time written in it: each merge of two non-empty records adds
\* one entry, so that k merges give k entries.
C6_BoundaryPerMarker ==
    (MergeOk /\ BothNonEmpty) =>
        LET hc == rnx.header.comments
        IN  merge_boundaries(rnx) =
                Append(merge_boundaries(last.pre), StampTime(hc[Len(hc)].tail))

\* C7: when every epoch of self precedes every epoch of other, a merge
\* followed by split_merged_records() gives back two records, the first
\* with self's epochs and the second with other's.
C7_SplitUndoesMerge ==
    (/\ MergeOk /\ BothNonEmpty
     /\ \A d1 \in DateSet(last.pre.record), d2 \in DateSet(last.other) : d1 < d2) =>
        LET o == split_merged_records(rnx)
        IN  /\ o.res = "Ok"
            /\ Len(o.out) = 2
            /\ DateSet(o.out[1]) = DateSet(last.pre.record)
            /\ DateSet(o.out[2]) = DateSet(last.other)

SplitCall == last.op = "split_record_at_epoch"

SplitTypes == {"ObservationData", "NavigationData", "MeteoData"}

\* Whether the two halves hold each entry of rec exactly once
IsPartition(rec, left, right) ==
    /\ DateSet(left) \cap DateSet(right) = {}
    /\ DateSet(left) \cup DateSet(right) = DateSet(rec)
    /\ Len(left) + Len(right) = Len(rec)
    /\ \A i \in 1 .. Len(rec) :
           (rec[i] \in Range(left)) # (rec[i] \in Range(right))

\* C8: on an Observation, Navigation or Meteo record, splitting at an epoch
\* between the first and last recorded dates gives two records with
\* disjoint key sets whose union is the original key set, each original
\* entry in exactly one of them.
C8_SplitIsPartition ==
    (/\ SplitCall
     /\ rnx.header.rinex_type \in SplitTypes
     /\ rnx.record # <<>>
     /\ rnx.record[1].epoch.date <= last.arg
     /\ last.arg <= rnx.record[Len(rnx.record)].epoch.date) =>
        /\ last.res = "Ok"
        /\ Len(last.out) = 2
        /\ IsPartition(rnx.record, last.out[1], last.out[2])

\* A split at the date of an entry that has entries before it
C8_Witness ==
    /\ SplitCall /\ last.res = "Ok"
    /\ last.arg \in DateSet(rnx.record)
    /\ last.out[1] # <<>>
    /\ last.out[2] # <<>>

\* C9: split_record_at_epoch(e) returns EpochTooEarly exactly when e
\* precedes every recorded epoch, EpochTooLate exactly when it follows
\* every recorded epoch, and otherwise succeeds with the epochs before e on
\* the left and those at or after e on the right.
C9_SplitErrors ==
    (SplitCall /\ rnx.header.rinex_type \in SplitTypes) =>
        LET early == \A d \in DateSet(rnx.record) : last.arg < d
            late == \A d \in DateSet(rnx.record) : last.arg > d
        IN  /\ early => last.res = "EpochTooEarly"
            /\ last.res = "EpochTooEarly" => early
            /\ (late /\ ~early) => last.res = "EpochTooLate"
            /\ last.res = "EpochTooLate" => late
            /\ (~early /\ ~late) =>
                   /\ last.res = "Ok"
                   /\ DateSet(last.out[1]) = {d \in DateSet(rnx.record) : d < last.arg}
                   /\ DateSet(last.out[2]) = {d \in DateSet(rnx.record) : d >= last.arg}

\* The entries at ordinal positions 0, n, 2n, ... of rec
EveryNth(rec, n) ==
    LET kept == (Len(rec) + n - 1) \div n
    IN  [i \in 1 .. kept |-> rec[(i - 1) * n + 1]]

\* C10: on every record of length L, decimation by a ratio n >= 1 keeps the
\* ceil(L/n) entries at positions 0, n, 2n, ... with their values.
C10_RatioKeepsEveryNth ==
    /\ (last.op = "decimate_by_ratio" /\ last.arg >= 1) =>
           /\ last.res = "Ok"
           /\ last.out = <<EveryNth(last.pre.record, last.arg)>>
    /\ (last.op = "decimate_by_ratio_mut" /\ last.arg >= 1) =>
           /\ last.res = "Ok"
           /\ rnx.record = EveryNth(last.pre.record, last.arg)

\* C11: on each of the six record types and for every ratio >= 1, the
\* copy-returning decimate_by_ratio completes and returns the record that
\* decimate_by_ratio_mut leaves in place.
C11_RatioCopyEqualsMut ==
    (last.op = "decimate_by_ratio" /\ last.arg >= 1) =>
        /\ last.res = "Ok"
        /\ last.out = <<decimate_by_ratio_mut(last.pre, last.arg).self.record>>

EpochFilterCopies == {"epoch_ok_filter", "epoch_nok_filter"}

EpochFilterMuts == {"epoch_ok_filter_mut", "epoch_nok_filter_mut"}

\* The record an epoch filter produced: self's for the in-place forms,
\* the returned one for the copy forms
EpochFilterResult == IF last.op \in EpochFilterMuts THEN rnx.record ELSE last.out[1]

WithOkFlag(rec) == LET Keep(en) == en.epoch.flag = "Ok" IN SelectSeq(rec, Keep)

WithoutOkFlag(rec) == LET Keep(en) == en.epoch.flag # "Ok" IN SelectSeq(rec, Keep)

IntervalOps == {"decimate_by_interval", "decimate_by_interval_mut"}

IntervalResult == IF last.op = "decimate_by_interval_mut" THEN rnx.record ELSE last.out[1]

\* The date of the last entry of kept that precedes date d
LastRetainedBefore(kept, d) ==
    LET before == {kept[i].epoch.date : i \in 1 .. Len(kept)} \cap (0 .. d - 1)
    IN  CHOOSE m \in before : \A x \in before : x <= m

C13_HeaderIntervalAdjusted ==
    (last.op = "decimate_by_interval_mut" /\ last.res = "Ok") =>
        rnx.header.sampling_interval = Some(last.arg)

MacroOps ==
    {"is_pseudo_range_obs_code", "is_phase_carrier_obs_code",
     "is_doppler_obs_code", "is_sig_strength_obs_code"}

\* The macros that answer true on code
ClassesOf(code) ==
    {op \in MacroOps :
        \/ op = "is_pseudo_range_obs_code" /\ is_pseudo_range_obs_code(code)
        \/ op = "is_phase_carrier_obs_code" /\ is_phase_carrier_obs_code(code)
        \/ op = "is_doppler_obs_code" /\ is_doppler_obs_code(code)
        \/ op = "is_sig_strength_obs_code" /\ is_sig_strength_obs_code(code)}

\* C20, as stated: every observable code satisfies exactly one of the four
\* is_*_obs_code predicates.
C20_ClassesExclusiveAndTotal ==
    last.op \in MacroOps =>
        /\ Cardinality(ClassesOf(last.arg)) = 1
        /\ (last.res = "true") <=> (last.op \in ClassesOf(last.arg))

\* C20, amended: the four classes are mutually exclusive, and a code
\* satisfies one of the predicates exactly when its first letter is C, P, L,
\* D or S; a code with another first letter (I, X) satisfies none.
C20_ClassesExclusive ==
    last.op \in MacroOps =>
        /\ Cardinality(ClassesOf(last.arg)) <= 1
        /\ (Cardinality(ClassesOf(last.arg)) = 1)
               <=> (last.arg[1] \in {"C", "P", "L", "D", "S"})
        /\ (last.res = "true") <=> (last.op \in ClassesOf(last.arg))

\* A receiver channel number code was put to one of the macros
C20_Witness ==
    /\ last.op \in MacroOps
    /\ last.arg[1] = "X"
    /\ Len(last.arg) = MaxCodeLen
    /\ last.res = "false"

IsObs(self) == self.header.rinex_type = "ObservationData"

IsNav(self) == self.header.rinex_type = "NavigationData"

\* Whether an observation carries an LLI with the LOCK_LOSS bit
HasLockLoss(data) == data.lli.some /\ "LOCK_LOSS" \in data.lli.v

\* The observations of a record, as (entry index, vehicle, code) triples
Observations(rec) ==
    {t \in (1 .. Len(rec)) \X {G07, G08, R01} \X {C1, L1} :
        /\ t[2] \in DOMAIN rec[t[1]].val.sv
        /\ t[3] \in DOMAIN rec[t[1]].val.sv[t[2]]}

DataAt(rec, t) == rec[t[1]].val.sv[t[2]][t[3]]

ObsFilterOps == {"lli_filter_mut", "lli_filter", "minimum_sig_strength_filter_mut"}

ObsFilterResult == IF last.op = "lli_filter" THEN last.out[1] ELSE rnx.record

\* What C14 says the filter called last keeps
ShouldKeep(data) ==
    IF last.op = "minimum_sig_strength_filter_mut"
    THEN data.ssi.some /\ data.ssi.v > last.arg
    ELSE data.lli.some /\ data.lli.v \cap last.arg # {}

\* C14: lli_filter(_mut)(mask) keeps an observation iff it carries an LLI
\* that intersects mask, minimum_sig_strength_filter_mut(min) iff it carries
\* an SSI strictly greater than min; an observation without the field is
\* dropped whatever the mask or minimum. Epochs, vehicles and the kept
\* observations are left as they were.
C14_LliSsiDropPolicy ==
    (last.op \in ObsFilterOps /\ IsObs(last.pre)) =>
        LET pre == last.pre.record
            post == ObsFilterResult
        IN  /\ last.res = "Ok"
            /\ Len(post) = Len(pre)
            /\ \A i \in 1 .. Len(pre) :
                   /\ post[i].epoch = pre[i].epoch
                   /\ DOMAIN post[i].val.sv = DOMAIN pre[i].val.sv
            /\ Observations(post) = {t \in Observations(pre) : ShouldKeep(DataAt(pre, t))}
            /\ \A t \in Observations(post) : DataAt(post, t) = DataAt(pre, t)

\* A filter kept an observation and dropped one that lacks the field
C14_Witness ==
    /\ last.op \in ObsFilterOps /\ IsObs(last.pre)
    /\ Observations(ObsFilterResult) # {}
    /\ \E t \in Observations(last.pre.record) :
           /\ t \notin Observations(ObsFilterResult)
           /\ ~DataAt(last.pre.record, t).lli.some
           /\ ~DataAt(last.pre.record, t).ssi.some

\* C15: every epoch lock_loss_events() returns on an Observation record
\* holds at least one observation whose LLI has the LOCK_LOSS bit set;
\* epochs without such an observation are not returned.
C15_LockLossEvents ==
    (last.op = "lock_loss_events" /\ IsObs(last.pre)) =>
        /\ last.res = "Ok"
        /\ Range(last.out[1]) \subseteq
               {last.pre.record[t[1]].epoch :
                    t \in {u \in Observations(last.pre.record) :
                               HasLockLoss(DataAt(last.pre.record, u))}}

\* C16: after lock_loss_filter() no remaining observation of an Observation
\* record has an LLI with the LOCK_LOSS bit set.
C16_LockLossRemoved ==
    (last.op = "lock_loss_filter" /\ IsObs(last.pre)) =>
        \A t \in Observations(rnx.record) : ~HasLockLoss(DataAt(rnx.record, t))

FilterOps ==
    {"constellation_filter_mut", "space_vehicule_filter_mut", "observable_filter_mut",
     "lli_filter_mut", "lli_filter", "minimum_sig_strength_filter_mut",
     "epoch_ok_filter_mut", "epoch_nok_filter_mut", "epoch_ok_filter", "epoch_nok_filter",
     "legacy_nav_filter_mut", "modern_nav_filter_mut"}

FilterCopies == {"lli_filter", "epoch_ok_filter", "epoch_nok_filter"}

\* The outcome of the filter op called on self with arg
Apply(op, self, arg) ==
    CASE op = "constellation_filter_mut" -> constellation_filter_mut(self, arg)
      [] op = "space_vehicule_filter_mut" -> space_vehicule_filter_mut(self, arg)
      [] op = "observable_filter_mut" -> observable_filter_mut(self, arg)
      [] op = "lli_filter_mut" -> lli_filter_mut(self, arg)
      [] op = "lli_filter" -> lli_filter(self, arg)
      [] op = "minimum_sig_strength_filter_mut" -> minimum_sig_strength_filter_mut(self, arg)
      [] op = "epoch_ok_filter_mut" -> epoch_ok_filter_mut(self)
      [] op = "epoch_nok_filter_mut" -> epoch_nok_filter_mut(self)
      [] op = "epoch_ok_filter" -> epoch_ok_filter(self)
      [] op = "epoch_nok_filter" -> epoch_nok_filter(self)
      [] op = "legacy_nav_filter_mut" -> legacy_nav_filter_mut(self)
      [] op = "modern_nav_filter_mut" -> modern_nav_filter_mut(self)

\* The record a filter call produced
FilterResult(op, o) == IF op \in FilterCopies THEN o.out[1] ELSE o.self.record

FilteredOnce == IF last.op \in FilterCopies THEN last.out[1] ELSE rnx.record

\* C18: every filter is idempotent: a second call with the same argument,
\* on the record the first call produced, produces that same record.
C18_FiltersIdempotent ==
    last.op \in FilterOps =>
        LET again == Apply(last.op, [last.pre EXCEPT !.record = FilteredOnce], last.arg)
        IN  /\ again.res = "Ok"
            /\ FilterResult(last.op, again) = FilteredOnce

\* An LLI filter dropped some observations of a record and kept others
C18_Witness ==
    /\ last.op \in {"lli_filter_mut", "lli_filter"} /\ IsObs(last.pre)
    /\ FilteredOnce # last.pre.record
    /\ Observations(FilteredOnce) # {}

\* The epochs of rec that hold an Ephemeris frame of a vehicle of filter
EpochsWithVehicleOf(rec, filter) ==
    {rec[i].epoch : i \in {j \in 1 .. Len(rec) :
        /\ "Ephemeris" \in DOMAIN rec[j].val
        /\ \E k \in 1 .. Len(rec[j].val["Ephemeris"]) :
               rec[j].val["Ephemeris"][k].sv \in filter}}

\* C19: after space_vehicule_filter_mut(F) on a Navigation record,
\* space_vehicule_clocks_offset() has as keys exactly the epochs that held
\* an Ephemeris frame of a vehicle of F, each inner map holds vehicles of F
\* only, and no inner map is empty.
C19_ClocksAfterSvFilter ==
    (last.op = "space_vehicule_filter_mut" /\ IsNav(last.pre)) =>
        LET o == space_vehicule_clocks_offset(rnx)
            offsets == o.out[1]
        IN  /\ o.res = "Ok"
            /\ IsSorted(offsets)
            /\ {offsets[i].epoch : i \in 1 .. Len(offsets)}
                   = EpochsWithVehicleOf(last.pre.record, last.arg)
            /\ \A i \in 1 .. Len(offsets) :
                   /\ DOMAIN offsets[i].val \subseteq last.arg
                   /\ DOMAIN offsets[i].val # {}

\* G07 at two epochs and G08 at the first, filtered by [G07]: two keys,
\* each with G07 only
C19_Witness ==
    /\ last.op = "space_vehicule_filter_mut" /\ IsNav(last.pre)
    /\ last.arg = {G07}
    /\ Len(last.pre.record) = 2
    /\ last.pre.record[1].val["Ephemeris"] = <<NavFrames[1], NavFrames[2]>>
    /\ last.pre.record[2].val["Ephemeris"] = <<NavFrames[1]>>
    /\ Len(space_vehicule_clocks_offset(rnx).out[1]) = 2

-----------------------------------------------------------------------------
\* Properties of the derived observables.

\* The value a result holds for a vehicle at an epoch, if any
Held(result, e, sv) ==
    IF \E i \in 1 .. Len(result) : EpochEq(result[i].epoch, e) /\ sv \in DOMAIN result[i].val
    THEN Some(ValueAt(result, e.date)[sv])
    ELSE None

\* C21: for every epoch and vehicle whose first two carrier phases, as
\* carrier_phases() extracts them, resolve to known channels,
\* iono_free_carrier_phases() holds the combination of these two phases.
C21_PhaseCombinationPresent ==
    last.op = "iono_free_carrier_phases" =>
        LET phases == carrier_phases(last.pre, last.arg)
        IN  \A i \in 1 .. Len(phases) : \A sv \in DOMAIN phases[i].val :
                LET expected == DualFrequency(sv, phases[i].val[sv], is_phase_carrier_obs_code)
                IN  expected.some => Held(last.out[1], phases[i].epoch, sv) = expected

\* The carrier a code resolves to for a vehicle, if any
ChannelOf(sv, code) == from_observable(sv.constellation, code)

\* The first two observables of a list resolve to two distinct frequencies
TwoCarriers(sv, obs) ==
    /\ Len(obs) > 1
    /\ ChannelOf(sv, obs[1][1]).some
    /\ ChannelOf(sv, obs[2][1]).some
    /\ carrier_frequency_mhz(ChannelOf(sv, obs[1][1]).v)
           # carrier_frequency_mhz(ChannelOf(sv, obs[2][1]).v)

\* C22: when the first two pseudo ranges of a vehicle at an epoch resolve to
\* two distinct carrier frequencies and carry the same raw value v,
\* iono_free_pseudo_ranges() returns exactly v for that vehicle.
C22_EqualRangesReturned ==
    last.op = "iono_free_pseudo_ranges" =>
        LET ranges == pseudo_ranges(last.pre, last.arg)
        IN  \A i \in 1 .. Len(ranges) : \A sv \in DOMAIN ranges[i].val :
                LET obs == ranges[i].val[sv]
                IN  TwoCarriers(sv, obs) /\ obs[1][2] = obs[2][2]
                        => Held(last.out[1], ranges[i].epoch, sv) = Some(obs[1][2])

\* The entry of the record that an epoch of a result comes from
RecordedAt(self, e) == ValueAt(self.record, e.date)

\* C23: pseudo_range_to_distance(offsets) holds an entry for (epoch, vehicle,
\* code) only if the epoch of the record has a receiver clock offset, offsets
\* has the epoch and the vehicle at that epoch, and code is a pseudo range
\* code; the entry is corrected of both offsets, and no empty map or list is
\* inserted.
C23_DistancesOnlyWithBothOffsets ==
    last.op = "pseudo_range_to_distance" =>
        LET result == last.out[1]
            offsets == last.other
        IN  \A i \in 1 .. Len(result) :
                LET e == result[i].epoch
                    svs == result[i].val
                IN  /\ e.date \in DateSet(last.pre.record)
                    /\ RecordedAt(last.pre, e).clk.some
                    /\ e.date \in DateSet(offsets)
                    /\ DOMAIN svs # {}
                    /\ \A sv \in DOMAIN svs :
                           /\ sv \in DOMAIN ValueAt(offsets, e.date)
                           /\ sv \in DOMAIN RecordedAt(last.pre, e).sv
                           /\ Len(svs[sv]) > 0
                           /\ \A n \in 1 .. Len(svs[sv]) :
                                  LET code == svs[sv][n][1]
                                  IN  /\ is_pseudo_range_obs_code(code)
                                      /\ code \in DOMAIN RecordedAt(last.pre, e).sv[sv]
                                      /\ svs[sv][n][2] =
                                             pr_real_distance(
                                                 RecordedAt(last.pre, e).sv[sv][code],
                                                 RecordedAt(last.pre, e).clk.v,
                                                 ValueAt(offsets, e.date)[sv])

\* Offsets are known for both epochs and for a vehicle that observes phases
\* only; the first epoch has no receiver clock offset and is left out, the
\* second gives the distances of its vehicle
C23_Witness ==
    /\ last.op = "pseudo_range_to_distance"
    /\ Len(last.other) = 2
    /\ R01 \in DOMAIN last.other[1].val
    /\ ~last.pre.record[1].val.clk.some
    /\ C1 \in DOMAIN last.pre.record[1].val.sv[G07]
    /\ Len(last.out[1]) = 1
    /\ last.out[1][1].epoch.date = MaxDate
    /\ Len(last.out[1][1].val[G08]) = 2

\* C29: whenever iono_free_pseudo_ranges() holds a value for a vehicle at an
\* epoch, the first two pseudo ranges of that vehicle resolve to channels of
\* distinct carrier frequencies; a vehicle whose first two codes share a
\* carrier, or resolve to fewer than two channels, contributes nothing.
C29_InsertedOnlyForDistinctCarriers ==
    last.op = "iono_free_pseudo_ranges" =>
        LET ranges == pseudo_ranges(last.pre, last.arg)
        IN  \A i \in 1 .. Len(ranges) : \A sv \in DOMAIN ranges[i].val :
                Held(last.out[1], ranges[i].epoch, sv).some
                    <=> TwoCarriers(sv, ranges[i].val[sv])

-----------------------------------------------------------------------------
\* Properties of the statistics of the sampling.

\* The epochs of a record that are further from the epoch before them than
\* the interval
GapsOf(es, interval) ==
    LET n == Len(es)
        gaps == {i \in 2 .. n : es[i].date - es[i - 1].date > interval}
        Nth(k) == CHOOSE i \in gaps : Cardinality({j \in gaps : j < i}) = k - 1
    IN  [k \in 1 .. Cardinality(gaps) |-> es[Nth(k)]]

\* C24: on a non-empty Observation, Navigation, Meteo or Ionosphere-map
\* record, data_gap() returns exactly the epochs whose distance to the epoch
\* before them exceeds the INTERVAL of the header, and the empty list when
\* the header has no INTERVAL.
C24_DataGapEpochs ==
    (/\ last.op = "data_gap"
     /\ last.pre.header.rinex_type \in EpochTypes
     /\ last.pre.record # <<>>) =>
        /\ last.res = "Ok"
        /\ last.out[1] = IF last.pre.header.sampling_interval.some
                         THEN GapsOf(epochs(last.pre), last.pre.header.sampling_interval.v)
                         ELSE <<>>

\* C27: on a record of two epochs or more, average_epoch_duration() is the
\* sum of the intervals between successive epochs divided by the number of
\* intervals, in whole seconds.
C27_MeanOfIntervals ==
    (/\ last.op = "average_epoch_duration"
     /\ last.pre.header.rinex_type \in EpochTypes
     /\ Len(last.pre.record) >= 2) =>
        /\ last.res = "Ok"
        /\ last.out[1] = SumOfIntervals(epochs(last.pre), 2) \div (Len(last.pre.record) - 1)

-----------------------------------------------------------------------------
\* Properties of the construction.

\* C25: in every Rinex value reachable through new, with_header and the
\* operations, the variant held by the record is the one of
\* header.rinex_type.
C25_VariantMatchesType == rnx.variant = rnx.header.rinex_type

-----------------------------------------------------------------------------
\* Properties of the split at the merge boundaries.

\* The entries of rec whose date is in [lo, hi)
Between(rec, lo, hi) ==
    LET Inside(en) == en.epoch.date >= lo /\ en.epoch.date < hi IN SelectSeq(rec, Inside)

\* C26: split_merged_records() returns one record per merge boundary, the
\* i-th holding exactly the entries from the previous boundary (the first
\* recorded epoch for the first one) up to the i-th boundary excluded; the
\* records are pairwise disjoint, and the list is empty when the header
\* carries no merge marker.
C26_OneRecordPerBoundary ==
    (last.op = "split_merged_records" /\ last.pre.header.rinex_type \in EpochTypes) =>
        LET boundaries == merge_boundaries(last.pre)
            rec == last.pre.record
        IN  /\ last.res = "Ok"
            /\ Len(last.out) = Len(boundaries)
            /\ \A i \in 1 .. Len(last.out) :
                   last.out[i] = Between(rec,
                                         IF i = 1 THEN rec[1].epoch.date ELSE boundaries[i - 1],
                                         boundaries[i])
            /\ \A i \in 1 .. Len(last.out) : \A j \in 1 .. Len(last.out) :
                   i # j => Range(last.out[i]) \cap Range(last.out[j]) = {}

-----------------------------------------------------------------------------
\* Properties of the version check.

Unsigned(field) == IF Len(field) > 0 /\ field[1] = "+" THEN Tail(field) ELSE field

\* A field is a decimal integer: digits, with or without a "+" before them
IsDecimal(field) ==
    /\ Unsigned(field) # <<>>
    /\ \A i \in 1 .. Len(Unsigned(field)) : Unsigned(field)[i] \in Range(DecimalDigits)

NumberOf(field) == Canonical(Unsigned(field))

FitsU32(field) == ~NumLess(U32Max, NumberOf(field))

\* The version has a major and a minor field, both decimal integers
WellFormed(version) ==
    /\ Len(Split(version)) >= 2
    /\ IsDecimal(Split(version)[1])
    /\ IsDecimal(Split(version)[2])

\* (M, m) <= (3, 4) in the lexicographic order
AtMostSupported(version) ==
    LET M == NumberOf(Split(version)[1])
        m == NumberOf(Split(version)[2])
    IN  NumLess(M, <<"3">>) \/ (M = <<"3">> /\ ~NumLess(<<"4">>, m))

Verdict(version) == IF AtMostSupported(version) THEN "Ok(true)" ELSE "Ok(false)"

\* C28, as stated: version_is_supported("M.m") is Ok(true) if and only if
\* (M, m) <= (3, 4), Ok(false) when it is greater, and Err when the major or
\* the minor field is missing or is not a decimal integer.
C28_SupportedIffAtMostCurrent ==
    last.op = "version_is_supported" =>
        last.res = IF WellFormed(last.arg) THEN Verdict(last.arg) ELSE "Err"

\* C28, corrected: version_is_supported("M.m") is Ok(true) if and only if M
\* and m are decimal integers that fit in u32 and (M, m) <= (3, 4), Ok(false)
\* when they fit and the pair is greater, and Err when a field is missing,
\* is not a decimal integer, or exceeds u32::MAX.
C28_SupportedIffAtMostCurrentInU32 ==
    last.op = "version_is_supported" =>
        last.res = IF /\ WellFormed(last.arg)
                      /\ FitsU32(Split(last.arg)[1])
                      /\ FitsU32(Split(last.arg)[2])
                   THEN Verdict(last.arg)
                   ELSE "Err"

\* A version whose two fields are decimal integers, one of them above
\* u32::MAX, is answered by an error
C28_Witness ==
    /\ last.op = "version_is_supported"
    /\ WellFormed(last.arg)
    /\ last.res = "Err"

-----------------------------------------------------------------------------
\* Properties of a merge that the headers refuse.

\* C30: if the merge of the headers fails, merge_mut returns the error as a
\* result value, leaves the record of self as it was and appends no merge
\* marker to the comments of the header.
C30_HeaderErrorLeavesSelf ==
    (/\ last.op = "merge_mut"
     /\ HeaderMergeFails(last.pre.header, Header(last.arg, <<>>))) =>
        /\ last.res = "HeaderMismatch"
        /\ rnx.record = last.pre.record
        /\ rnx.header.comments = last.pre.header.comments

\* A file of another type is merged into a file that holds epochs, as the
\* other file does
C30_Witness ==
    /\ last.op = "merge_mut"
    /\ last.arg # last.pre.header.rinex_type
    /\ last.pre.record # <<>>
    /\ last.other # <<>>
    /\ last.res = "HeaderMismatch"

====
